---- MODULE Spec2Model ----
(***************************************************************************)
(* Model of milosriki/manusvideo: the batch loop (batchAnalyzeVideos,      *)
(* BatchVideoProcessor.processBatch), the App component's handleAnalyze,   *)
(* GeminiVideoAnalyzer (analyzeVideo, parseAnalysisResponse,               *)
(* generateVideo) and generateVideoWithProgress.                           *)
(***************************************************************************)
EXTENDS Naturals, Integers, Sequences, FiniteSets, TLC

(***************************************************************************)
(* Bounds of the model.                                                    *)
(***************************************************************************)
MaxVideos == 6
MaxConcurrentArg == 2
ProseLen == 300
GenPollBound == 4
MaxScenes == 3

(***************************************************************************)
(* Program constants.                                                      *)
(***************************************************************************)
DefaultMaxConcurrent == 3
ProcessorMaxConcurrent == 5
SummaryLimit == 500
PollIntervalMs == 10000
ExtractFrames == 30
maxPolls == 60
DefaultTargetDuration == 30

Null == "null"
Undefined == "undefined"

Min(a, b) == IF a < b THEN a ELSE b

(***************************************************************************)
(* Response texts and JSON.                                                *)
(* A text is a sequence of tokens.  Each token stands for the characters   *)
(* TokenLen counts: BQ a backquote, the word json, a line feed, the JSON      *)
(* punctuation and literals, and PROSE, a run of ProseLen characters of    *)
(* prose without backquotes, line feeds or JSON.                           *)
(***************************************************************************)
NL == "LF"
BQ == "BQ"

StrTokens == {"S_summary", "S_scenes", "S_timestamps", "S_emotions",
              "S_objects", "S_transcription", "S_extra", "S_text", "S_"}

\* the characters between the quotes of a string literal
StrValue(tok) ==
  CASE tok = "S_summary"       -> "summary"
    [] tok = "S_scenes"        -> "scenes"
    [] tok = "S_timestamps"    -> "timestamps"
    [] tok = "S_emotions"      -> "emotions"
    [] tok = "S_objects"       -> "objects"
    [] tok = "S_transcription" -> "transcription"
    [] tok = "S_extra"         -> "extra"
    [] tok = "S_text"          -> "text"
    [] tok = "S_"              -> ""

StrLen(s) ==
  CASE s = "summary"       -> 7
    [] s = "scenes"        -> 6
    [] s = "timestamps"    -> 10
    [] s = "emotions"      -> 8
    [] s = "objects"       -> 7
    [] s = "transcription" -> 13
    [] s = "extra"         -> 5
    [] s = "text"          -> 4
    [] s = ""              -> 0

NumTokens == {"0", "7"}
NumValue(tok) == IF tok = "0" THEN 0 ELSE 7

TokenLen(tok) ==
  CASE tok \in StrTokens -> StrLen(StrValue(tok)) + 2
    [] tok = "json"      -> 4
    [] tok = "null"      -> 4
    [] tok = "true"      -> 4
    [] tok = "false"     -> 5
    [] tok = "PROSE"     -> ProseLen
    [] OTHER             -> 1

\* JavaScript values: t is the type, s the characters of a string, n the
\* value of a number (or a count of characters), e the elements of an
\* array or the members of an object
Val(t, s, n, e) == [t |-> t, s |-> s, n |-> n, e |-> e]
JNull == Val("null", "", 0, <<>>)
JUndefined == Val("undefined", "", 0, <<>>)
JBool(b) == Val(IF b THEN "true" ELSE "false", "", 0, <<>>)
JNum(n) == Val("num", "", n, <<>>)
JStr(s) == Val("str", s, 0, <<>>)
JArr(e) == Val("arr", "", 0, e)
JObj(members) == Val("obj", "", 0, members)
Member(k, v) == Val("member", k, 0, <<v>>)

EmptyString == JStr("")
EmptyList == JArr(<<>>)

\* a string given by its characters: the tokens taken, each with the
\* number of its characters that belong to the string
Chars(tok, k) == Val("chars", tok, k, <<>>)
JText(cs, len) == IF len = 0 THEN JStr("") ELSE Val("text", "", len, cs)

\* white space is skipped between JSON tokens
RECURSIVE SkipWS(_, _)
SkipWS(toks, i) ==
  IF i <= Len(toks) /\ toks[i] = NL THEN SkipWS(toks, i + 1) ELSE i

ParseFail == [ok |-> FALSE, val |-> JUndefined, next |-> 0]
ParseOk(v, nxt) == [ok |-> TRUE, val |-> v, next |-> nxt]

RECURSIVE ParseValue(_, _), ParseElems(_, _, _, _), ParseMembers(_, _, _, _)

\* JSON.parse: one value starting at token i
ParseValue(toks, i) ==
  LET j == SkipWS(toks, i) IN
  IF j > Len(toks) THEN ParseFail
  ELSE LET tok == toks[j] IN
       CASE tok = "null"      -> ParseOk(JNull, j + 1)
         [] tok = "true"      -> ParseOk(JBool(TRUE), j + 1)
         [] tok = "false"     -> ParseOk(JBool(FALSE), j + 1)
         [] tok \in NumTokens -> ParseOk(JNum(NumValue(tok)), j + 1)
         [] tok \in StrTokens -> ParseOk(JStr(StrValue(tok)), j + 1)
         [] tok = "["         -> ParseElems(toks, j + 1, <<>>, TRUE)
         [] tok = "{"         -> ParseMembers(toks, j + 1, <<>>, TRUE)
         [] OTHER             -> ParseFail

\* the elements of an array up to its closing bracket
ParseElems(toks, i, acc, first) ==
  LET j == SkipWS(toks, i) IN
  IF j > Len(toks) THEN ParseFail
  ELSE IF first /\ toks[j] = "]" THEN ParseOk(JArr(acc), j + 1)
  ELSE LET r == ParseValue(toks, j) IN
       IF ~r.ok THEN ParseFail
       ELSE LET k == SkipWS(toks, r.next) IN
            IF k > Len(toks) THEN ParseFail
            ELSE IF toks[k] = "," THEN ParseElems(toks, k + 1, Append(acc, r.val), FALSE)
            ELSE IF toks[k] = "]" THEN ParseOk(JArr(Append(acc, r.val)), k + 1)
            ELSE ParseFail

\* the members of an object up to its closing brace
ParseMembers(toks, i, acc, first) ==
  LET j == SkipWS(toks, i) IN
  IF j > Len(toks) THEN ParseFail
  ELSE IF first /\ toks[j] = "}" THEN ParseOk(JObj(acc), j + 1)
  ELSE IF toks[j] \notin StrTokens THEN ParseFail
  ELSE LET c == SkipWS(toks, j + 1) IN
       IF c > Len(toks) \/ toks[c] # ":" THEN ParseFail
       ELSE LET r == ParseValue(toks, c + 1) IN
            IF ~r.ok THEN ParseFail
            ELSE LET k == SkipWS(toks, r.next)
                     m == Member(StrValue(toks[j]), r.val)
                 IN
                 IF k > Len(toks) THEN ParseFail
                 ELSE IF toks[k] = "," THEN ParseMembers(toks, k + 1, Append(acc, m), FALSE)
                 ELSE IF toks[k] = "}" THEN ParseOk(JObj(Append(acc, m)), k + 1)
                 ELSE ParseFail

\* JSON.parse(text): the whole text must be one value; ok = FALSE stands
\* for the SyntaxError
JSONParse(toks) ==
  LET r == ParseValue(toks, 1) IN
  IF r.ok /\ SkipWS(toks, r.next) > Len(toks) THEN r ELSE ParseFail

\* parsed[key]: the last member of that name of an object; undefined for a
\* missing member and for a number, string, boolean or array
RECURSIVE GetFrom(_, _, _)
GetFrom(members, key, i) ==
  IF i = 0 THEN JUndefined
  ELSE IF members[i].s = key THEN members[i].e[1]
  ELSE GetFrom(members, key, i - 1)

Get(v, key) == IF v.t = "obj" THEN GetFrom(v.e, key, Len(v.e)) ELSE JUndefined

\* the values the || operator treats as false
Falsy(v) ==
  \/ v.t \in {"undefined", "null", "false"}
  \/ v.t = "num" /\ v.n = 0
  \/ v.t = "str" /\ v.s = ""
  \/ v.t = "text" /\ v.n = 0

\* a ?? b: only null and undefined give way to the default
OrElseNullish(a, b) == IF a.t \in {"undefined", "null"} THEN b ELSE a

\* a || b
OrElse(a, b) == IF Falsy(a) THEN b ELSE a

IsAt(toks, i, pat) ==
  /\ i + Len(pat) - 1 <= Len(toks)
  /\ \A k \in 1..Len(pat) : toks[i + k - 1] = pat[k]

FenceOpen == <<BQ, BQ, BQ, "json", NL>>
FenceClose == <<NL, BQ, BQ, BQ>>

\* a match that takes the longest content, up to the last closing fence
FenceMatchGreedy(toks) ==
  LET opens == { i \in 1..Len(toks) :
                   /\ IsAt(toks, i, FenceOpen)
                   /\ \E j \in (i + 5)..Len(toks) : IsAt(toks, j, FenceClose) }
  IN
  IF opens = {} THEN [found |-> FALSE, group |-> <<>>]
  ELSE LET i == CHOOSE a \in opens : \A b \in opens : a <= b
           closes == { j \in (i + 5)..Len(toks) : IsAt(toks, j, FenceClose) }
           j == CHOOSE a \in closes : \A b \in closes : a >= b
       IN [found |-> TRUE, group |-> SubSeq(toks, i + 5, j - 1)]

\* responseText.match(/```json\n([\s\S]*?)\n```/): the leftmost opening
\* fence that is followed by a closing fence, and the shortest content
FenceMatch(toks) ==
  LET opens == { i \in 1..Len(toks) :
                   /\ IsAt(toks, i, FenceOpen)
                   /\ \E j \in (i + 5)..Len(toks) : IsAt(toks, j, FenceClose) }
  IN
  IF opens = {} THEN [found |-> FALSE, group |-> <<>>]
  ELSE LET i == CHOOSE a \in opens : \A b \in opens : a <= b
           closes == { j \in (i + 5)..Len(toks) : IsAt(toks, j, FenceClose) }
           j == CHOOSE a \in closes : \A b \in closes : a <= b
       IN [found |-> TRUE, group |-> SubSeq(toks, i + 5, j - 1)]

\* jsonMatch ? jsonMatch[1] : responseText
JsonText(toks) ==
  LET m == FenceMatch(toks) IN IF m.found THEN m.group ELSE toks

\* responseText.substring(0, limit), by characters
RECURSIVE SubstringFrom(_, _, _, _, _)
SubstringFrom(toks, i, limit, acc, len) ==
  IF i > Len(toks) \/ limit = 0 THEN JText(acc, len)
  ELSE LET k == Min(TokenLen(toks[i]), limit) IN
       SubstringFrom(toks, i + 1, limit - k, Append(acc, Chars(toks[i], k)), len + k)

Substring(toks, limit) == SubstringFrom(toks, 1, limit, <<>>, 0)

Fields == <<"summary", "scenes", "timestamps", "emotions", "objects", "transcription">>
FieldSet == { Fields[i] : i \in 1..Len(Fields) }
StringFields == {"summary", "transcription"}

DefaultOf(key) == IF key \in StringFields THEN EmptyString ELSE EmptyList

\* a catch block that returns the empty result
FallbackEmpty(toks) == [key \in FieldSet |-> DefaultOf(key)]

\* the object literal of the catch block
Fallback(toks) ==
  [key \in FieldSet |->
     IF key = "summary" THEN Substring(toks, SummaryLimit) ELSE DefaultOf(key)]

\* the result object of parseAnalysisResponse, as a value
ResultObject(f) == JObj([i \in 1..Len(Fields) |-> Member(Fields[i], f[Fields[i]])])

\* A response text is a string or undefined (response.text of a response
\* without text).
Text(toks) == [defined |-> TRUE, toks |-> toks]
NoText == [defined |-> FALSE, toks |-> <<>>]

Returned(v) == [threw |-> FALSE, val |-> v]
Threw == [threw |-> TRUE, val |-> JUndefined]

\* parseAnalysisResponse(responseText).  Reading a property of null throws
\* inside the try block and ends in the catch block like a SyntaxError;
\* for an undefined text match throws in the try block and substring
\* throws in the catch block.
ParseAnalysisResponse(rt) ==
  IF ~rt.defined THEN Threw
  ELSE LET r == JSONParse(JsonText(rt.toks)) IN
       IF ~r.ok \/ r.val.t = "null"
       THEN Returned(ResultObject(Fallback(rt.toks)))
       ELSE Returned(ResultObject(
              [key \in FieldSet |-> OrElse(Get(r.val, key), DefaultOf(key))]))

\* parseRecommendations(responseText): the parsed value, or [] from the
\* catch block (also when match throws on an undefined text)
ParseRecommendations(rt) ==
  IF ~rt.defined THEN Returned(EmptyList)
  ELSE LET r == JSONParse(JsonText(rt.toks)) IN
       IF ~r.ok THEN Returned(EmptyList) ELSE Returned(r.val)

\* parseJSON(responseText) of the guide: the parsed value itself
ParseJSON(rt) ==
  IF ~rt.defined THEN Threw
  ELSE LET r == JSONParse(JsonText(rt.toks)) IN
       IF ~r.ok THEN Returned(ResultObject(Fallback(rt.toks)))
       ELSE Returned(r.val)

(***************************************************************************)
(* The response texts the parsing functions are applied to: JSON values    *)
(* written as text, alone or inside prose and fences, complete or not.     *)
(***************************************************************************)
StrToken(s) == CHOOSE tok \in StrTokens : StrValue(tok) = s

RECURSIVE Stringify(_), StringifyAll(_, _)
\* the text of a value (JSON.stringify)
Stringify(v) ==
  CASE v.t = "null"   -> <<"null">>
    [] v.t = "true"   -> <<"true">>
    [] v.t = "false"  -> <<"false">>
    [] v.t = "num"    -> <<IF v.n = 0 THEN "0" ELSE "7">>
    [] v.t = "str"    -> <<StrToken(v.s)>>
    [] v.t = "arr"    -> <<"[">> \o StringifyAll(v.e, 1) \o <<"]">>
    [] v.t = "obj"    -> <<"{">> \o StringifyAll(v.e, 1) \o <<"}">>
    [] v.t = "member" -> <<StrToken(v.s), ":">> \o Stringify(v.e[1])

StringifyAll(vs, i) ==
  IF i > Len(vs) THEN <<>>
  ELSE Stringify(vs[i]) \o (IF i < Len(vs) THEN <<",">> ELSE <<>>) \o StringifyAll(vs, i + 1)

FieldChoices == {"absent", "falsy", "string", "list"}

\* a falsy value for each field: '', null, 0, false
FalsyFor(key) ==
  CASE key \in StringFields  -> JStr("")
    [] key = "scenes"        -> JNull
    [] key = "timestamps"    -> JNum(0)
    [] key = "emotions"      -> JBool(FALSE)
    [] key = "objects"       -> JNull

ChoiceValue(key, c) ==
  CASE c = "falsy"  -> FalsyFor(key)
    [] c = "string" -> JStr("text")
    [] c = "list"   -> JArr(<<JNum(7)>>)

RECURSIVE MembersOf(_, _)
MembersOf(choice, i) ==
  IF i > Len(Fields) THEN <<>>
  ELSE (IF choice[Fields[i]] = "absent" THEN <<>>
        ELSE <<Member(Fields[i], ChoiceValue(Fields[i], choice[Fields[i]]))>>)
       \o MembersOf(choice, i + 1)

ObjectValues ==
  { JObj(MembersOf(choice, 1)) : choice \in [FieldSet -> FieldChoices] }
  \cup { JObj(<<Member("extra", JNum(7)), Member("summary", JStr("text"))>>),
         JObj(<<Member("summary", JStr("")), Member("summary", JStr("text"))>>),
         JObj(<<Member("scenes", JArr(<<JObj(<<Member("extra", JNull)>>)>>))>>) }

OtherValues ==
  { JNull, JNum(0), JNum(7), JStr("text"), JBool(TRUE), JArr(<<>>),
    JArr(<<JObj(<<Member("extra", JStr("text"))>>), JNum(7)>>) }

Wrappers == {"plain", "spaced", "fence", "prose fence", "two fences",
             "second fence", "prose", "long prose", "open fence", "cut",
             "cut fence", "empty"}

Wrap(w, b) ==
  CASE w = "plain"       -> b
    [] w = "spaced"      -> <<NL>> \o b \o <<NL>>
    [] w = "fence"       -> FenceOpen \o b \o FenceClose
    [] w = "prose fence" -> <<"PROSE", NL>> \o FenceOpen \o b \o FenceClose \o <<NL, "PROSE">>
    [] w = "two fences"  -> FenceOpen \o b \o FenceClose \o <<NL>> \o FenceOpen \o <<"PROSE">> \o FenceClose
    [] w = "second fence" -> FenceOpen \o <<"PROSE">> \o FenceClose \o <<NL>> \o FenceOpen \o b \o FenceClose
    [] w = "prose"       -> <<"PROSE">> \o b
    [] w = "long prose"  -> <<"PROSE", "PROSE">> \o b
    [] w = "open fence"  -> FenceOpen \o b
    [] w = "cut"         -> SubSeq(b, 1, Len(b) - 1)
    [] w = "cut fence"   -> FenceOpen \o SubSeq(b, 1, Len(b) - 1) \o FenceClose
    [] w = "empty"       -> <<>>

\* whether the wrapper leaves the JSON text of the value to be parsed
Intact(w) == w \in {"plain", "spaced", "fence", "prose fence", "two fences"}

Sources ==
  { [val |-> v, wrap |-> w] : v \in ObjectValues, w \in {"plain", "fence"} }
  \cup { [val |-> v, wrap |-> w] :
           v \in OtherValues \cup { JObj(<<Member("summary", JStr("text"))>>) },
           w \in Wrappers }

TextOf(src) == Text(Wrap(src.wrap, Stringify(src.val)))

(***************************************************************************)
(* Batch processing.                                                       *)
(*   impl          which of the two batch functions runs                   *)
(*   videos        number of input files; file v is the v-th input         *)
(*   maxConcurrent the chunk size                                          *)
(*   hasProgress   whether an onProgress callback was passed               *)
(*   bi            the loop variable i (0-based index of the chunk start)  *)
(*   bpc           position of the batch function                          *)
(*   task          state of the mapped async function of each file         *)
(*   chunkRec      value each mapped async function returned               *)
(*   results       the results array                                       *)
(*   completed     the completed counter                                   *)
(*   cbThrown      whether some onProgress call has thrown                 *)
(*   outcome       history: how the analysis awaited for each file ended   *)
(*   progressCalls history: the arguments of the onProgress calls          *)
(*   callsFor      history: the number of onProgress calls made by the     *)
(*                 mapped function of each file                            *)
(***************************************************************************)
VARIABLES impl, videos, maxConcurrent, hasProgress, bi, bpc, task, chunkRec,
          results, completed, cbThrown, outcome, progressCalls, callsFor

batchVars == <<impl, videos, maxConcurrent, hasProgress, bi, bpc, task,
               chunkRec, results, completed, cbThrown, outcome,
               progressCalls, callsFor>>

(***************************************************************************)
(* Parsing of a response text.                                             *)
(*   psrc     the value and the wrapping the response text was made of     *)
(*   ptext    the response text                                            *)
(*   pfn      the parsing function that was applied                        *)
(*   presult  what it returned                                             *)
(***************************************************************************)
VARIABLES psrc, ptext, pfn, presult

parseVars == <<psrc, ptext, pfn, presult>>

(***************************************************************************)
(* Video generation (generateVideo, generateVideoWithProgress).            *)
(*   gfn         which of the two functions runs                           *)
(*   gpc         position of the function                                  *)
(*   gop         currentOperation: the operation state last received       *)
(*   pollCount   number of getVideosOperation responses received (the      *)
(*               variable pollCount of generateVideoWithProgress)          *)
(*   sinceCheck  milliseconds waited since the last operation state was    *)
(*               received                                                  *)
(*   downloads   number of fetch calls made for the video                  *)
(*   gprogress   the onProgress calls made, in order                       *)
(*   gerror      message of the error thrown                               *)
(***************************************************************************)
VARIABLES gfn, gpc, gop, pollCount, sinceCheck, downloads, gprogress, gerror

genVars == <<gfn, gpc, gop, pollCount, sinceCheck, downloads, gprogress, gerror>>

(***************************************************************************)
(* The App component and the analysis it starts.                           *)
(*   apiKey, videoFile, analysis, loading, error, ptdOptimized             *)
(*               the state of the component                                *)
(*   hpc         position of handleAnalyze / analyzeVideo: idle, or the    *)
(*               promise the running call awaits                           *)
(*   reqKey, reqFile, reqPtd  apiKey, videoFile and ptdOptimized the      *)
(*               latest call was started with                              *)
(*   vst         the video element of extractVideoFrames                   *)
(*   frames      the frames captured so far, each as its capture time      *)
(*   currentTime the position captureFrame seeks to next                   *)
(*   objectUrls  object URLs the latest call created and has not revoked   *)
(*   parsed      the analysis parsed from the first response               *)
(*   sent        models of the vendor requests of the latest call          *)
(*   rejection   value the latest call of analyzeVideo rejected with       *)
(*   escaped     whether an error left handleAnalyze                       *)
(*   lastEvent   the operation that led to the state                       *)
(***************************************************************************)
VARIABLES apiKey, videoFile, analysis, loading, error, ptdOptimized,
          hpc, reqKey, reqFile, reqPtd, vst, frames, currentTime, objectUrls, parsed, sent,
          rejection, escaped, lastEvent

appVars == <<apiKey, videoFile, analysis, loading, error, ptdOptimized,
             hpc, reqKey, reqFile, reqPtd, vst, frames, currentTime, objectUrls, parsed, sent,
             rejection, escaped, lastEvent>>

(***************************************************************************)
(* VideoReconstructor.selectBestScenes applied to its arguments.           *)
(*   scenes         geminiAnalysis.scenes                                  *)
(*   targetDuration, optimizeFor, includeScenes, excludeScenes             *)
(*                  the other arguments (vertexAnalysis is not read)       *)
(*   rpc            whether the function was called                        *)
(*   selectedScenes the list it returned                                   *)
(***************************************************************************)
VARIABLES scenes, targetDuration, optimizeFor, includeScenes, excludeScenes,
          rpc, selectedScenes

sceneVars == <<scenes, targetDuration, optimizeFor, includeScenes,
               excludeScenes, rpc, selectedScenes>>

(***************************************************************************)
(* VideoAnalysisOrchestrator.analyzeComprehensive.                         *)
(*   opc            position of the call                                   *)
(*   geminiTask, vertexTask   state of the two promises of Promise.all     *)
(*   geminiAnalysis, vertexAnalysis   the values they fulfilled with       *)
(*   comprehensive  the value the call returned                            *)
(***************************************************************************)
VARIABLES opc, geminiTask, vertexTask, geminiAnalysis, vertexAnalysis,
          comprehensive

orchVars == <<opc, geminiTask, vertexTask, geminiAnalysis, vertexAnalysis,
              comprehensive>>

vars == <<batchVars, parseVars, genVars, appVars, sceneVars, orchVars>>

nonBatchVars == <<parseVars, genVars, appVars, sceneVars, orchVars>>
nonParseVars == <<batchVars, genVars, appVars, sceneVars, orchVars>>
nonGenVars == <<batchVars, parseVars, appVars, sceneVars, orchVars>>
nonAppVars == <<batchVars, parseVars, genVars, sceneVars, orchVars>>
nonSceneVars == <<batchVars, parseVars, genVars, appVars, orchVars>>
nonOrchVars == <<batchVars, parseVars, genVars, appVars, sceneVars>>

\* The causes for which the analysis of one file rejects, and the message
\* property of the value it rejects with: extractFrames rejects with an
\* Error, fileToBase64 with the reader's error event, which has no message.
FailureCauses == {"frames", "base64"}

FailureMessage(cause) ==
  CASE cause = "frames"  -> "Failed to load video"
    [] cause = "base64"  -> Undefined

CallbackMessage == "callback error"

VideoName(v) == <<"name", v>>
AnalysisOf(v) == <<"analysis", v>>

SuccessRecord(v) == [video |-> VideoName(v), analysis |-> AnalysisOf(v), error |-> Null]
FailureRecord(v, msg) == [video |-> VideoName(v), analysis |-> Null, error |-> msg]

NoRecord == [video |-> Null, analysis |-> Null, error |-> Null]

\* a slice whose end is one position too far
ChunkOfOneMore(i, mc, n) == { v \in 1..n : i < v /\ v <= Min(i + mc + 1, n) }

\* videos.slice(i, i + maxConcurrent), as the set of 1-based positions
ChunkOf(i, mc, n) == { v \in 1..n : i < v /\ v <= Min(i + mc, n) }

\* the records of a chunk, the last file first
RECURSIVE ChunkResultsReversed(_, _, _)
ChunkResultsReversed(lo, hi, rec) ==
  IF lo > hi THEN <<>> ELSE ChunkResultsReversed(lo + 1, hi, rec) \o <<rec[lo]>>

\* [...chunkResults] in the order of the chunk
RECURSIVE ChunkResults(_, _, _)
ChunkResults(lo, hi, rec) ==
  IF lo > hi THEN <<>> ELSE <<rec[lo]>> \o ChunkResults(lo + 1, hi, rec)

InFlight == { v \in 1..videos : task[v] = "running" }

BatchInit ==
  /\ impl \in {"batchAnalyzeVideos", "processBatch"}
  /\ videos \in 0..MaxVideos
  /\ maxConcurrent \in
       IF impl = "processBatch" THEN {ProcessorMaxConcurrent}
       ELSE (1..MaxConcurrentArg) \cup {DefaultMaxConcurrent}
  /\ hasProgress \in IF impl = "processBatch" THEN {TRUE} ELSE BOOLEAN
  /\ bi = 0
  /\ bpc = "loop"
  /\ task = [v \in 1..videos |-> "idle"]
  /\ chunkRec = [v \in 1..videos |-> NoRecord]
  /\ results = <<>>
  /\ completed = 0
  /\ cbThrown = FALSE
  /\ outcome = [v \in 1..videos |-> "pending"]
  /\ progressCalls = <<>>
  /\ callsFor = [v \in 1..videos |-> 0]

\* for (i ...; i < videos.length; ...) { chunk = slice; Promise.all(chunk.map(...)) }
\* every mapped async function runs synchronously up to its first await
StartChunk ==
  /\ bpc = "loop"
  /\ bi < videos
  /\ task' = [v \in 1..videos |->
                IF v \in ChunkOf(bi, maxConcurrent, videos) THEN "running" ELSE task[v]]
  /\ bpc' = "await"
  /\ UNCHANGED <<impl, videos, maxConcurrent, hasProgress, bi, chunkRec,
                 results, completed, cbThrown, outcome>>
  /\ UNCHANGED <<progressCalls, callsFor>>
  /\ UNCHANGED nonBatchVars

\* the loop condition fails: return results
BatchReturn ==
  /\ bpc = "loop"
  /\ bi >= videos
  /\ bpc' = "resolved"
  /\ UNCHANGED <<impl, videos, maxConcurrent, hasProgress, bi, task, chunkRec,
                 results, completed, cbThrown, outcome>>
  /\ UNCHANGED <<progressCalls, callsFor>>
  /\ UNCHANGED nonBatchVars

\* onProgress called for analyses that succeeded only
CallsMadeOnSuccessOnly(ok, t1) == IF ok THEN (IF t1 THEN 2 ELSE 1) ELSE 0

\* the number of onProgress calls the mapped function makes with a
\* callback: one after completed++ in the try block or in the catch
\* block, and one more in the catch block when the first one threw
CallsMade(ok, t1) == IF ok /\ t1 THEN 2 ELSE 1

\* n calls onProgress(completed, videos.length), each after a completed++
ProgressCalled(v, n) ==
  /\ progressCalls' = progressCalls \o [k \in 1..n |-> <<completed + k, videos>>]
  /\ callsFor' = [callsFor EXCEPT ![v] = @ + n]

\* the mapped function without its try/catch: a rejected analysis rejects
\* the mapped promise
TaskSettleNoCatch(v, ok, cause, t1, t2) ==
  /\ task[v] = "running"
  /\ completed' = completed + 1
  /\ task' = [task EXCEPT ![v] = IF ok THEN "returned" ELSE "rejected"]
  /\ chunkRec' = [chunkRec EXCEPT ![v] = IF ok THEN SuccessRecord(v) ELSE @]
  /\ outcome' = [outcome EXCEPT ![v] = IF ok THEN "ok" ELSE cause]
  /\ UNCHANGED <<impl, videos, maxConcurrent, hasProgress, bi, bpc, results, cbThrown>>
  /\ ProgressCalled(v, IF hasProgress THEN 1 ELSE 0)
  /\ UNCHANGED nonBatchVars

\* The mapped async function of file v after its await settles.
\*   ok       the analysis resolved
\*   cause    the cause of the rejection otherwise
\*   t1, t2   whether the onProgress call in the try block / in the catch
\*            block throws (no call is made without a callback)
TaskSettle(v, ok, cause, t1, t2) ==
  /\ task[v] = "running"
  /\ LET throws1 == hasProgress /\ t1
         throws2 == hasProgress /\ t2
     IN
     IF ok
     THEN IF ~throws1
          THEN /\ completed' = completed + 1
               /\ task' = [task EXCEPT ![v] = "returned"]
               /\ chunkRec' = [chunkRec EXCEPT ![v] = SuccessRecord(v)]
               /\ UNCHANGED cbThrown
          ELSE \* onProgress threw inside try: the catch block runs
               /\ completed' = completed + 2
               /\ cbThrown' = TRUE
               /\ IF ~throws2
                  THEN /\ task' = [task EXCEPT ![v] = "returned"]
                       /\ chunkRec' = [chunkRec EXCEPT ![v] = FailureRecord(v, CallbackMessage)]
                  ELSE /\ task' = [task EXCEPT ![v] = "rejected"]
                       /\ UNCHANGED chunkRec
     ELSE /\ completed' = completed + 1
          /\ IF ~throws2
             THEN /\ task' = [task EXCEPT ![v] = "returned"]
                  /\ chunkRec' = [chunkRec EXCEPT ![v] = FailureRecord(v, FailureMessage(cause))]
                  /\ UNCHANGED cbThrown
             ELSE /\ task' = [task EXCEPT ![v] = "rejected"]
                  /\ cbThrown' = TRUE
                  /\ UNCHANGED chunkRec
  /\ outcome' = [outcome EXCEPT ![v] = IF ok THEN "ok" ELSE cause]
  /\ UNCHANGED <<impl, videos, maxConcurrent, hasProgress, bi, bpc, results>>
  /\ ProgressCalled(v, IF hasProgress THEN CallsMade(ok, t1) ELSE 0)
  /\ UNCHANGED nonBatchVars

TaskSucceed ==
  \E v \in 1..videos, t1 \in BOOLEAN, t2 \in BOOLEAN :
     TaskSettle(v, TRUE, "frames", t1, t2)

TaskFail ==
  \E v \in 1..videos, cause \in FailureCauses, t2 \in BOOLEAN :
     TaskSettle(v, FALSE, cause, FALSE, t2)

\* a loop that goes on as soon as one promise of the chunk has fulfilled
ChunkDoneAny ==
  /\ bpc = "await"
  /\ \E v \in ChunkOf(bi, maxConcurrent, videos) : task[v] = "returned"
  /\ results' = results \o ChunkResults(bi + 1, Min(bi + maxConcurrent, videos), chunkRec)
  /\ bi' = bi + maxConcurrent
  /\ bpc' = "loop"
  /\ UNCHANGED <<impl, videos, maxConcurrent, hasProgress, task, chunkRec,
                 completed, cbThrown, outcome>>
  /\ UNCHANGED <<progressCalls, callsFor>>
  /\ UNCHANGED nonBatchVars

\* Promise.all fulfils once every promise of the chunk has fulfilled:
\* results.push(...chunkResults); i += maxConcurrent
ChunkDone ==
  /\ bpc = "await"
  /\ \A v \in ChunkOf(bi, maxConcurrent, videos) : task[v] = "returned"
  /\ results' = results \o ChunkResults(bi + 1, Min(bi + maxConcurrent, videos), chunkRec)
  /\ bi' = bi + maxConcurrent
  /\ bpc' = "loop"
  /\ UNCHANGED <<impl, videos, maxConcurrent, hasProgress, task, chunkRec,
                 completed, cbThrown, outcome>>
  /\ UNCHANGED <<progressCalls, callsFor>>
  /\ UNCHANGED nonBatchVars

\* Promise.all rejects as soon as one promise of the chunk rejects; the
\* await throws and the batch function rejects
ChunkReject ==
  /\ bpc = "await"
  /\ \E v \in ChunkOf(bi, maxConcurrent, videos) : task[v] = "rejected"
  /\ bpc' = "rejected"
  /\ UNCHANGED <<impl, videos, maxConcurrent, hasProgress, bi, task, chunkRec,
                 results, completed, cbThrown, outcome>>
  /\ UNCHANGED <<progressCalls, callsFor>>
  /\ UNCHANGED nonBatchVars

BatchNext ==
  \/ StartChunk
  \/ BatchReturn
  \/ TaskSucceed
  \/ TaskFail
  \/ ChunkDone
  \/ ChunkReject

BatchIdle ==
  /\ impl = "batchAnalyzeVideos"
  /\ videos = 0
  /\ maxConcurrent = DefaultMaxConcurrent
  /\ hasProgress = FALSE
  /\ bi = 0
  /\ bpc = "loop"
  /\ task = <<>>
  /\ chunkRec = <<>>
  /\ results = <<>>
  /\ completed = 0
  /\ cbThrown = FALSE
  /\ outcome = <<>>
  /\ progressCalls = <<>>
  /\ callsFor = <<>>

(***************************************************************************)
(* Parsing: the functions applied to a response text.                      *)
(***************************************************************************)
NoResult == [threw |-> FALSE, val |-> JUndefined]
NoSource == [val |-> JUndefined, wrap |-> "none"]

ParseIdle ==
  /\ psrc = NoSource
  /\ ptext = NoText
  /\ pfn = "none"
  /\ presult = NoResult

ParseInit ==
  /\ psrc \in Sources
  /\ ptext = TextOf(psrc)
  /\ pfn = "none"
  /\ presult = NoResult

CallParseAnalysisResponse ==
  /\ pfn = "none"
  /\ psrc # NoSource
  /\ pfn' = "parseAnalysisResponse"
  /\ presult' = ParseAnalysisResponse(ptext)
  /\ UNCHANGED <<psrc, ptext>>
  /\ UNCHANGED nonParseVars

CallParseJSON ==
  /\ pfn = "none"
  /\ psrc # NoSource
  /\ pfn' = "parseJSON"
  /\ presult' = ParseJSON(ptext)
  /\ UNCHANGED <<psrc, ptext>>
  /\ UNCHANGED nonParseVars

CallParseRecommendations ==
  /\ pfn = "none"
  /\ psrc # NoSource
  /\ pfn' = "parseRecommendations"
  /\ presult' = ParseRecommendations(ptext)
  /\ UNCHANGED <<psrc, ptext>>
  /\ UNCHANGED nonParseVars

ParseNext ==
  \/ CallParseAnalysisResponse
  \/ CallParseJSON
  \/ CallParseRecommendations

(***************************************************************************)
(* Video generation.                                                       *)
(***************************************************************************)
NoOperation == [done |-> FALSE, uri |-> FALSE]

\* the states of the remote operation a response can carry: running, done
\* with a generated video, done without one
OperationStates ==
  { [done |-> FALSE, uri |-> FALSE], [done |-> TRUE, uri |-> TRUE],
    [done |-> TRUE, uri |-> FALSE] }

\* onProgress(message) / onProgress(message, percentage); the percentage is
\* kept as the numerator of a fraction over maxPolls, -1 without one
Progress(msg, pctNum) == [msg |-> msg, pct |-> pctNum]

\* a percentage without the cap at 90
PercentageUncapped(count) == count * 100

\* Math.min(90, (pollCount / maxPolls) * 100), times maxPolls
Percentage(count) == Min(90 * maxPolls, count * 100)

GenIdle ==
  /\ gfn = "generateVideo"
  /\ gpc = "idle"
  /\ gop = NoOperation
  /\ pollCount = 0
  /\ sinceCheck = 0
  /\ downloads = 0
  /\ gprogress = <<>>
  /\ gerror = Null

GenInit ==
  /\ gfn \in {"generateVideo", "generateVideoWithProgress"}
  /\ gpc = "idle"
  /\ gop = NoOperation
  /\ pollCount = 0
  /\ sinceCheck = 0
  /\ downloads = 0
  /\ gprogress = <<>>
  /\ gerror = Null

WithProgress == gfn = "generateVideoWithProgress"

\* the call: onProgress('Initializing video generation...'), then the
\* generateVideos request
GenCall ==
  /\ gpc = "idle"
  /\ gprogress' = Append(gprogress,
                         Progress("Initializing video generation...",
                                  IF WithProgress THEN 0 ELSE -1))
  /\ gpc' = "request"
  /\ UNCHANGED <<gfn, gop, pollCount, sinceCheck, downloads, gerror>>
  /\ UNCHANGED nonGenVars

\* the generateVideos request resolves with the operation
GenRequestResolve ==
  /\ gpc = "request"
  /\ \E op \in OperationStates : gop' = op
  /\ gpc' = "check"
  /\ UNCHANGED <<gfn, pollCount, sinceCheck, downloads, gprogress, gerror>>
  /\ UNCHANGED nonGenVars

\* the generateVideos or getVideosOperation request rejects
GenRequestReject ==
  /\ gpc \in {"request", "poll"}
  /\ gpc' = "thrown"
  /\ gerror' = "API error"
  /\ UNCHANGED <<gfn, gop, pollCount, sinceCheck, downloads, gprogress>>
  /\ UNCHANGED nonGenVars

\* a loop condition without the limit on the number of polls
LoopContinuesNoLimit(fn, op, count) == ~op.done

\* a loop condition that gives up after the first poll
LoopContinuesOnePoll(fn, op, count) == ~op.done /\ count < 1

\* while (!currentOperation.done) / while (!currentOperation.done &&
\* pollCount < maxPolls)
LoopContinues(fn, op, count) ==
  /\ ~op.done
  /\ fn = "generateVideoWithProgress" => count < maxPolls

\* the loop condition; in the loop, onProgress and the start of the timer
GenLoopCheck ==
  /\ gpc = "check"
  /\ IF LoopContinues(gfn, gop, pollCount)
     THEN /\ gprogress' = Append(gprogress,
                 IF WithProgress
                 THEN Progress("Processing video... (%)", Percentage(pollCount))
                 ELSE Progress("Processing video... This may take a few minutes.", -1))
          /\ gpc' = "wait"
     ELSE /\ gpc' = "after"
          /\ UNCHANGED gprogress
  /\ UNCHANGED <<gfn, gop, pollCount, sinceCheck, downloads, gerror>>
  /\ UNCHANGED nonGenVars

\* a loop body that asks again without waiting
GenTimerNoWait ==
  /\ gpc = "wait"
  /\ gpc' = "poll"
  /\ UNCHANGED <<gfn, gop, pollCount, sinceCheck, downloads, gprogress, gerror>>
  /\ UNCHANGED nonGenVars

\* setTimeout(resolve, 10000) fires; getVideosOperation is sent
GenTimer ==
  /\ gpc = "wait"
  /\ sinceCheck' = sinceCheck + PollIntervalMs
  /\ gpc' = "poll"
  /\ UNCHANGED <<gfn, gop, pollCount, downloads, gprogress, gerror>>
  /\ UNCHANGED nonGenVars

\* getVideosOperation resolves with the state of the operation; pollCount++.
\* generateVideo keeps no count: for it pollCount is the number of polls
\* made, of which the model follows GenPollBound.
GenPollResolve ==
  /\ gpc = "poll"
  /\ pollCount < (IF WithProgress THEN maxPolls + GenPollBound ELSE GenPollBound)
  /\ \E op \in OperationStates : gop' = op
  /\ pollCount' = pollCount + 1
  /\ sinceCheck' = 0
  /\ gpc' = "check"
  /\ UNCHANGED <<gfn, downloads, gprogress, gerror>>
  /\ UNCHANGED nonGenVars

\* the progress call made before the download link is looked at
GenAfterLoopProgressFirst ==
  /\ gpc = "after"
  /\ gprogress' = Append(gprogress,
         IF WithProgress THEN Progress("Downloading video...", 95 * maxPolls)
         ELSE Progress("Fetching generated video...", -1))
  /\ IF WithProgress /\ ~gop.done
     THEN /\ gpc' = "thrown"
          /\ gerror' = "Video generation timed out"
          /\ UNCHANGED downloads
     ELSE IF ~gop.uri
     THEN /\ gpc' = "thrown"
          /\ gerror' = IF WithProgress
                       THEN "Video generation failed - no download link"
                       ELSE "Video generation failed"
          /\ UNCHANGED downloads
     ELSE /\ gpc' = "download"
          /\ downloads' = downloads + 1
          /\ UNCHANGED gerror
  /\ UNCHANGED <<gfn, gop, pollCount, sinceCheck>>
  /\ UNCHANGED nonGenVars

\* after the loop: the timeout check and the progress call of
\* generateVideoWithProgress, the download link, the fetch
GenAfterLoop ==
  /\ gpc = "after"
  /\ IF WithProgress /\ ~gop.done
     THEN /\ gpc' = "thrown"
          /\ gerror' = "Video generation timed out"
          /\ UNCHANGED <<downloads, gprogress>>
     ELSE IF ~gop.uri
     THEN /\ gpc' = "thrown"
          /\ gerror' = IF WithProgress
                       THEN "Video generation failed - no download link"
                       ELSE "Video generation failed"
          /\ gprogress' = IF WithProgress
                          THEN Append(gprogress, Progress("Downloading video...", 95 * maxPolls))
                          ELSE gprogress
          /\ UNCHANGED downloads
     ELSE /\ gpc' = "download"
          /\ downloads' = downloads + 1
          /\ gprogress' = Append(gprogress,
                 IF WithProgress
                 THEN Progress("Downloading video...", 95 * maxPolls)
                 ELSE Progress("Fetching generated video...", -1))
          /\ UNCHANGED gerror
  /\ UNCHANGED <<gfn, gop, pollCount, sinceCheck>>
  /\ UNCHANGED nonGenVars

\* the fetch settles: it rejects, or resolves with a response whose ok
\* only generateVideoWithProgress looks at; the blob becomes an object URL
GenFetchSettle ==
  /\ gpc = "download"
  /\ \E fetched \in {"rejected", "not ok", "ok"} :
       IF fetched = "rejected"
       THEN /\ gpc' = "thrown"
            /\ gerror' = "Failed to fetch"
            /\ UNCHANGED gprogress
       ELSE IF fetched = "not ok" /\ WithProgress
       THEN /\ gpc' = "thrown"
            /\ gerror' = "Failed to download video"
            /\ UNCHANGED gprogress
       ELSE /\ gpc' = "returned"
            /\ gprogress' = IF WithProgress
                            THEN Append(gprogress, Progress("Video ready!", 100 * maxPolls))
                            ELSE gprogress
            /\ UNCHANGED gerror
  /\ UNCHANGED <<gfn, gop, pollCount, sinceCheck, downloads>>
  /\ UNCHANGED nonGenVars

GenNext ==
  \/ GenCall
  \/ GenRequestResolve
  \/ GenRequestReject
  \/ GenLoopCheck
  \/ GenTimer
  \/ GenPollResolve
  \/ GenAfterLoop
  \/ GenFetchSettle

(***************************************************************************)
(* The App component.                                                      *)
(***************************************************************************)
Keys == {"", "key"}

\* clip loads and decodes; partial loads and may fail to decode while
\* seeking; broken cannot be loaded at all; stream loads and decodes but
\* has no duration in its header (a recording of a media stream)
Files == {"clip", "partial", "broken", "stream"}
Loadable(f) == f \in {"clip", "partial", "stream"}
MayFailDecoding(f) == f = "partial"

\* times are seconds; Infinity is the duration of a source without one
Infinity == -1

\* video.duration once the metadata is loaded
Duration(f) ==
  CASE f = "clip" -> ExtractFrames
    [] f = "partial" -> 2 * ExtractFrames
    [] OTHER -> Infinity

\* video.duration / numFrames, for the durations above, which numFrames
\* divides: the quotient and its multiples are exact in floating point
Interval(d, numFrames) == IF d = Infinity THEN Infinity ELSE d \div numFrames

\* a + b and a > b on times
TimePlus(a, b) == IF a = Infinity \/ b = Infinity THEN Infinity ELSE a + b
TimeGreater(a, b) ==
  IF a = Infinity THEN b # Infinity ELSE b # Infinity /\ a > b

ValidationMessage == "Please provide API key and select a video file"

\* values a promise rejects with: an Error with a message, or an event
\* object, whose message property is undefined
ErrorValue(msg) == [nullish |-> FALSE, message |-> msg]
NoRejection == [nullish |-> FALSE, message |-> "none"]

LoadError == ErrorValue("Failed to load video")
ReaderErrorEvent == ErrorValue(Undefined)
ApiError == ErrorValue("API error")
TypeErrorValue == ErrorValue("Cannot read properties of undefined")

\* the responses of the two generateContent requests
AnalysisResponses ==
  { Text(FenceOpen \o Stringify(JObj(<<Member("summary", JStr("text")),
                                       Member("scenes", JArr(<<JNum(7)>>))>>))
         \o FenceClose),
    NoText }

RecommendationResponses ==
  { Text(Stringify(JArr(<<JObj(<<Member("extra", JStr("text"))>>)>>))),
    Text(<<"PROSE">>) }

\* { ...analysis, recommendations } for the file and flag of the call
Result(f, ptd, fields, recs) ==
  [file |-> f, ptd |-> ptd, fields |-> fields, recommendations |-> recs]

NoAnalysis == Result(Null, FALSE, JUndefined, JUndefined)

AppInit ==
  /\ apiKey = ""
  /\ videoFile = Null
  /\ analysis = NoAnalysis
  /\ loading = FALSE
  /\ error = Null
  /\ ptdOptimized = FALSE
  /\ hpc = "idle"
  /\ reqKey = Null
  /\ reqFile = Null
  /\ reqPtd = FALSE
  /\ vst = "none"
  /\ frames = <<>>
  /\ currentTime = 0
  /\ objectUrls = 0
  /\ parsed = JUndefined
  /\ sent = <<>>
  /\ rejection = NoRejection
  /\ escaped = FALSE
  /\ lastEvent = "init"

\* onChange of the key input
SetApiKey ==
  /\ \E k \in Keys : apiKey' = k
  /\ lastEvent' = "key"
  /\ UNCHANGED <<videoFile, analysis, loading, error, ptdOptimized, hpc, reqKey, reqFile,
                 reqPtd, vst, frames, currentTime, objectUrls, parsed, sent, rejection, escaped>>
  /\ UNCHANGED nonAppVars

\* a file input whose change reaches the running call
SetVideoFileAltersRequest ==
  /\ \E f \in Files \cup {Null} : videoFile' = f /\ reqFile' = f
  /\ lastEvent' = "file"
  /\ UNCHANGED <<apiKey, analysis, loading, error, ptdOptimized, hpc, reqKey,
                 reqPtd, vst, frames, currentTime, objectUrls, parsed, sent, rejection, escaped>>
  /\ UNCHANGED nonAppVars

\* onChange of the file input
SetVideoFile ==
  /\ \E f \in Files \cup {Null} : videoFile' = f
  /\ lastEvent' = "file"
  /\ UNCHANGED <<apiKey, analysis, loading, error, ptdOptimized, hpc, reqKey, reqFile,
                 reqPtd, vst, frames, currentTime, objectUrls, parsed, sent, rejection, escaped>>
  /\ UNCHANGED nonAppVars

\* onChange of the checkbox
SetPtdOptimized ==
  /\ ptdOptimized' = ~ptdOptimized
  /\ lastEvent' = "ptd"
  /\ UNCHANGED <<apiKey, videoFile, analysis, loading, error, hpc, reqKey, reqFile,
                 reqPtd, vst, frames, currentTime, objectUrls, parsed, sent, rejection, escaped>>
  /\ UNCHANGED nonAppVars

\* a button that stays enabled while loading
ButtonDisabledIgnoresLoading == apiKey = "" \/ videoFile = Null

\* disabled={loading || !apiKey || !videoFile}
ButtonDisabled == loading \/ apiKey = "" \/ videoFile = Null

\* a validation branch that shows the spinner before it returns
HandleAnalyzeInvalidSetsLoading ==
  /\ apiKey = "" \/ videoFile = Null
  /\ error' = ValidationMessage
  /\ loading' = TRUE
  /\ lastEvent' = "invalid"
  /\ UNCHANGED <<apiKey, videoFile, analysis, ptdOptimized, hpc, reqKey, reqFile,
                 reqPtd, vst, frames, currentTime, objectUrls, parsed, sent, rejection, escaped>>
  /\ UNCHANGED nonAppVars

\* handleAnalyze called with a missing input: the first branch of the
\* handler.  The button is disabled in these states, so the call does not
\* come from a click on it.
HandleAnalyzeInvalid ==
  /\ apiKey = "" \/ videoFile = Null
  /\ error' = ValidationMessage
  /\ lastEvent' = "invalid"
  /\ UNCHANGED <<apiKey, videoFile, analysis, loading, ptdOptimized, hpc, reqKey, reqFile,
                 reqPtd, vst, frames, currentTime, objectUrls, parsed, sent, rejection, escaped>>
  /\ UNCHANGED nonAppVars

\* a click that clears the stored analysis before the call
ClickAnalyzeClearsAnalysis ==
  /\ ~ButtonDisabled
  /\ apiKey # "" /\ videoFile # Null
  /\ loading' = TRUE
  /\ error' = Null
  /\ reqKey' = apiKey
  /\ reqFile' = videoFile
  /\ reqPtd' = ptdOptimized
  /\ hpc' = "frames"
  /\ vst' = "loading"
  /\ frames' = <<>>
  /\ currentTime' = 0
  /\ objectUrls' = 1
  /\ parsed' = JUndefined
  /\ sent' = <<>>
  /\ rejection' = NoRejection
  /\ lastEvent' = "click"
  /\ analysis' = NoAnalysis
  /\ UNCHANGED <<apiKey, videoFile, ptdOptimized, escaped>>
  /\ UNCHANGED nonAppVars

\* a click on the enabled button: handleAnalyze up to its await, which is
\* analyzeVideo up to the await of extractVideoFrames (the video element
\* gets the object URL of the file as its source)
ClickAnalyze ==
  /\ ~ButtonDisabled
  /\ apiKey # "" /\ videoFile # Null
  /\ loading' = TRUE
  /\ error' = Null
  /\ reqKey' = apiKey
  /\ reqFile' = videoFile
  /\ reqPtd' = ptdOptimized
  /\ hpc' = "frames"
  /\ vst' = "loading"
  /\ frames' = <<>>
  /\ currentTime' = 0
  /\ objectUrls' = 1
  /\ parsed' = JUndefined
  /\ sent' = <<>>
  /\ rejection' = NoRejection
  /\ lastEvent' = "click"
  /\ UNCHANGED <<apiKey, videoFile, analysis, ptdOptimized, escaped>>
  /\ UNCHANGED nonAppVars

\* err.message without the default
ErrorTextRaw(err) == err.message

\* err.message || 'Analysis failed'
ErrorText(err) ==
  IF err.message \in {Undefined, ""} THEN "Analysis failed" ELSE err.message

\* analyzeVideo rejected with err: the catch and finally blocks of
\* handleAnalyze.  Reading the message of null or undefined would throw out
\* of the catch block.
Rejected(err) ==
  /\ hpc' = "idle"
  /\ rejection' = err
  /\ IF err.nullish
     THEN escaped' = TRUE /\ UNCHANGED error
     ELSE error' = ErrorText(err) /\ UNCHANGED escaped
  /\ loading' = FALSE
  /\ lastEvent' = "rejected"

\* loadedmetadata: the handlers are set and captureFrame seeks to 0
VideoLoadedMetadata ==
  /\ hpc = "frames" /\ vst = "loading"
  /\ Loadable(reqFile)
  /\ vst' = "seeking"
  /\ lastEvent' = "event"
  /\ UNCHANGED <<apiKey, videoFile, analysis, loading, error, ptdOptimized, hpc,
                 reqKey, reqFile, reqPtd, frames, currentTime, objectUrls, parsed, sent, rejection, escaped>>
  /\ UNCHANGED nonAppVars

\* the error event of a source that cannot be loaded: onerror is not set
\* yet (it is set in onloadedmetadata), nothing settles the promise
VideoErrorBeforeMetadata ==
  /\ hpc = "frames" /\ vst = "loading"
  /\ ~Loadable(reqFile)
  /\ vst' = "failed"
  /\ lastEvent' = "event"
  /\ UNCHANGED <<apiKey, videoFile, analysis, loading, error, ptdOptimized, hpc,
                 reqKey, reqFile, reqPtd, frames, currentTime, objectUrls, parsed, sent, rejection, escaped>>
  /\ UNCHANGED nonAppVars

\* seeked: a frame is pushed, currentTime += interval, captureFrame.
\* captureFrame resolves when currentTime > video.duration and seeks
\* otherwise; assigning a time that is not finite to video.currentTime
\* throws a TypeError out of the handler, and nothing settles the promise.
\* When the promise resolves, analyzeVideo goes on to fileToBase64.
VideoSeeked ==
  /\ hpc = "frames" /\ vst = "seeking"
  /\ frames' = Append(frames, currentTime)
  /\ currentTime' = TimePlus(currentTime, Interval(Duration(reqFile), ExtractFrames))
  /\ IF TimeGreater(currentTime', Duration(reqFile))
     THEN /\ objectUrls' = objectUrls - 1
          /\ vst' = "none"
          /\ hpc' = "base64"
     ELSE /\ vst' = IF currentTime' = Infinity THEN "stalled" ELSE "seeking"
          /\ UNCHANGED <<objectUrls, hpc>>
  /\ lastEvent' = "event"
  /\ UNCHANGED <<apiKey, videoFile, analysis, loading, error, ptdOptimized,
                 reqKey, reqFile, reqPtd, parsed, sent, rejection, escaped>>
  /\ UNCHANGED nonAppVars

\* the error event after onerror was set: reject('Failed to load video')
VideoErrorWhileSeeking ==
  /\ hpc = "frames" /\ vst = "seeking"
  /\ MayFailDecoding(reqFile)
  /\ vst' = "failed"
  /\ Rejected(LoadError)
  /\ UNCHANGED <<apiKey, videoFile, analysis, ptdOptimized, reqKey, reqFile, reqPtd,
                 frames, currentTime, objectUrls, parsed, sent>>
  /\ UNCHANGED nonAppVars

\* reader.onload: the generateContent request for gemini-2.5-pro is sent
ReaderLoad ==
  /\ hpc = "base64"
  /\ sent' = Append(sent, "gemini-2.5-pro")
  /\ hpc' = "analysis"
  /\ lastEvent' = "event"
  /\ UNCHANGED <<apiKey, videoFile, analysis, loading, error, ptdOptimized,
                 reqKey, reqFile, reqPtd, vst, frames, currentTime, objectUrls, parsed, rejection, escaped>>
  /\ UNCHANGED nonAppVars

\* reader.onerror: reject(error) with the event
ReaderError ==
  /\ hpc = "base64"
  /\ Rejected(ReaderErrorEvent)
  /\ UNCHANGED <<apiKey, videoFile, analysis, ptdOptimized, reqKey, reqFile, reqPtd,
                 vst, frames, currentTime, objectUrls, parsed, sent>>
  /\ UNCHANGED nonAppVars

\* the analysis response arrives: parseAnalysisResponse, then the
\* generateContent request for gemini-2.5-flash
AnalysisResponse ==
  /\ hpc = "analysis"
  /\ \E rt \in AnalysisResponses :
       LET r == ParseAnalysisResponse(rt) IN
       IF r.threw
       THEN /\ Rejected(TypeErrorValue)
            /\ UNCHANGED <<parsed, sent>>
       ELSE /\ parsed' = r.val
            /\ sent' = Append(sent, "gemini-2.5-flash")
            /\ hpc' = "recommendations"
            /\ lastEvent' = "event"
            /\ UNCHANGED <<loading, error, rejection, escaped>>
  /\ UNCHANGED <<apiKey, videoFile, analysis, ptdOptimized, reqKey, reqFile, reqPtd,
                 vst, frames, currentTime, objectUrls>>
  /\ UNCHANGED nonAppVars

\* a rejected analysis request sent once more
RequestFailsRetry ==
  /\ hpc \in {"analysis", "recommendations"}
  /\ IF hpc = "analysis" /\ Len(sent) = 1
     THEN /\ sent' = Append(sent, "gemini-2.5-pro")
          /\ lastEvent' = "event"
          /\ UNCHANGED <<hpc, rejection, error, escaped, loading>>
     ELSE Rejected(ApiError) /\ UNCHANGED sent
  /\ UNCHANGED <<apiKey, videoFile, analysis, ptdOptimized, reqKey, reqFile, reqPtd,
                 vst, frames, currentTime, objectUrls, parsed>>
  /\ UNCHANGED nonAppVars

\* one of the two generateContent requests rejects
RequestFails ==
  /\ hpc \in {"analysis", "recommendations"}
  /\ Rejected(ApiError)
  /\ UNCHANGED <<apiKey, videoFile, analysis, ptdOptimized, reqKey, reqFile, reqPtd,
                 vst, frames, currentTime, objectUrls, parsed, sent>>
  /\ UNCHANGED nonAppVars

\* the recommendation response arrives: analyzeVideo resolves;
\* setAnalysis(result) and, in finally, setLoading(false)
RecommendationResponse ==
  /\ hpc = "recommendations"
  /\ \E rt \in RecommendationResponses :
       analysis' = Result(reqFile, reqPtd, parsed, ParseRecommendations(rt).val)
  /\ loading' = FALSE
  /\ hpc' = "idle"
  /\ lastEvent' = "resolved"
  /\ UNCHANGED <<apiKey, videoFile, error, ptdOptimized, reqKey, reqFile, reqPtd,
                 vst, frames, currentTime, objectUrls, parsed, sent, rejection, escaped>>
  /\ UNCHANGED nonAppVars

\* what the browser and the vendor do
AppEvents ==
  \/ VideoLoadedMetadata
  \/ VideoErrorBeforeMetadata
  \/ VideoSeeked
  \/ VideoErrorWhileSeeking
  \/ ReaderLoad
  \/ ReaderError
  \/ AnalysisResponse
  \/ RequestFails
  \/ RecommendationResponse

AppNext ==
  \/ SetApiKey
  \/ SetVideoFile
  \/ SetPtdOptimized
  \/ HandleAnalyzeInvalid
  \/ ClickAnalyze
  \/ VideoLoadedMetadata
  \/ VideoErrorBeforeMetadata
  \/ VideoSeeked
  \/ VideoErrorWhileSeeking
  \/ ReaderLoad
  \/ ReaderError
  \/ AnalysisResponse
  \/ RequestFails
  \/ RecommendationResponse

(***************************************************************************)
(* VideoReconstructor.selectBestScenes.                                    *)
(***************************************************************************)
\* a scene of the analysis; index is its position in geminiAnalysis.scenes
\* (from 0), kept to tell the scenes of the result apart
Scene(i, st, et, emo, objs, sc) ==
  [index |-> i, startTime |-> st, endTime |-> et, dominantEmotion |-> emo,
   objects |-> objs, score |-> sc]

\* the scenes a list is made of: start, end, emotion, objects, score
SceneKinds ==
  { <<0, 10, "excited", <<>>, 50>>,
    <<10, 28, "neutral", <<"logo", "person", "product", "text">>, 45>>,
    <<28, 30, "neutral", <<"person">>, 50>> }

SceneLists ==
  UNION { { [i \in 1..n |-> Scene(i - 1, k[i][1], k[i][2], k[i][3], k[i][4], k[i][5])] :
            k \in [1..n -> SceneKinds] } : n \in 0..MaxScenes }

TargetDurations == {0, 15, DefaultTargetDuration}
Goals == {"engagement", "conversion", "brand"}

\* includeScenes and excludeScenes: undefined, or a list of indices, of
\* which only includes() is used
NotGiven == [given |-> FALSE, indices |-> {}]
IndexList(idxs) == [given |-> TRUE, indices |-> idxs]
IndexLists == {NotGiven} \cup { IndexList(idxs) : idxs \in SUBSET (0..(MaxScenes - 1)) }

\* list.filter((_, i) => idxs.includes(i) === keep)
FilterByIndex(list, idxs, keep) ==
  LET F[n \in 0..Len(list)] ==
        IF n = 0 THEN <<>>
        ELSE IF ((n - 1) \in idxs.indices) = keep THEN Append(F[n - 1], list[n])
             ELSE F[n - 1]
  IN F[Len(list)]

\* the two filters: the second one runs on the list the first one returned,
\* so that its i is the position in that list
FilterScenes(list, incl, excl) ==
  LET included == IF incl.given THEN FilterByIndex(list, incl, TRUE)
                  ELSE list
  IN IF excl.given THEN FilterByIndex(included, excl, FALSE)
     ELSE included

\* the score after the boost of the optimisation goal
FinalScore(scene, goal) ==
  IF goal = "engagement"
  THEN scene.score + (IF scene.dominantEmotion = "excited" THEN 20 ELSE 0)
  ELSE IF goal = "conversion"
       THEN scene.score + (IF Len(scene.objects) > 3 THEN 10 ELSE 0)
       ELSE scene.score

\* { ...scene, finalScore }
Scored(scene, goal) ==
  [index |-> scene.index, startTime |-> scene.startTime,
   endTime |-> scene.endTime, dominantEmotion |-> scene.dominantEmotion,
   objects |-> scene.objects, score |-> scene.score,
   finalScore |-> FinalScore(scene, goal)]

\* x placed into a list sorted by (a, b) => b.finalScore - a.finalScore,
\* behind the elements it does not precede (the sort is stable)
InsertByScore(sorted, x) ==
  LET before == { j \in 0..Len(sorted) :
                    \A i \in 1..j : sorted[i].finalScore >= x.finalScore }
      at == CHOOSE j \in before : \A m \in before : m <= j
  IN SubSeq(sorted, 1, at) \o <<x>> \o SubSeq(sorted, at + 1, Len(sorted))

SortByScore(list) ==
  LET S[n \in 0..Len(list)] ==
        IF n = 0 THEN <<>> ELSE InsertByScore(S[n - 1], list[n])
  IN S[Len(list)]

\* a loop that stops only when the target is filled
ReachedTargetFully(total, target) == total >= target

\* totalDuration >= targetDuration * 0.9, on whole seconds
ReachedTarget(total, target) == 10 * total >= 9 * target

\* totalDuration alone compared with the target
FitsBeforeAdding(totalDuration, sceneDuration, target) ==
  totalDuration <= target

\* totalDuration + sceneDuration <= targetDuration
Fits(totalDuration, sceneDuration, target) ==
  totalDuration + sceneDuration <= target

\* the loop over the sorted scenes, from the i-th one on
RECURSIVE SelectLoop(_, _, _, _, _)
SelectLoop(sorted, i, selected, totalDuration, target) ==
  IF i > Len(sorted) THEN selected
  ELSE LET sceneDuration == sorted[i].endTime - sorted[i].startTime
           fits == Fits(totalDuration, sceneDuration, target)
           selected2 == IF fits THEN Append(selected, sorted[i]) ELSE selected
           total2 == IF fits THEN totalDuration + sceneDuration
                     ELSE totalDuration
       IN IF ReachedTarget(total2, target) THEN selected2
          ELSE SelectLoop(sorted, i + 1, selected2, total2, target)

SelectBestScenes(list, target, goal, incl, excl) ==
  LET filtered == FilterScenes(list, incl, excl)
      scoredScenes == [i \in 1..Len(filtered) |-> Scored(filtered[i], goal)]
  IN SelectLoop(SortByScore(scoredScenes), 1, <<>>, 0, target)

ScenesIdle ==
  /\ scenes = <<>>
  /\ targetDuration = 0
  /\ optimizeFor = "none"
  /\ includeScenes = NotGiven
  /\ excludeScenes = NotGiven
  /\ rpc = "idle"
  /\ selectedScenes = <<>>

ScenesInit ==
  /\ scenes \in SceneLists
  /\ targetDuration \in TargetDurations
  /\ optimizeFor \in Goals
  /\ includeScenes \in IndexLists
  /\ excludeScenes \in IndexLists
  /\ rpc = "called"
  /\ selectedScenes = <<>>

CallSelectBestScenes ==
  /\ rpc = "called"
  /\ selectedScenes' = SelectBestScenes(scenes, targetDuration, optimizeFor,
                                        includeScenes, excludeScenes)
  /\ rpc' = "returned"
  /\ UNCHANGED <<scenes, targetDuration, optimizeFor, includeScenes, excludeScenes>>
  /\ UNCHANGED nonSceneVars

(***************************************************************************)
(* VideoAnalysisOrchestrator.analyzeComprehensive and mergeAnalyses.       *)
(***************************************************************************)
\* the result of the Gemini analysis, as far as mergeAnalyses reads it:
\* scenes.length, transcription.length, and whether every timestamp has a
\* description (calculateConversionScore calls a method of it)
GeminiAnalyses ==
  { [scenes |-> n, transcription |-> len, described |-> d] :
      n \in {4, 5}, len \in {100, 101}, d \in BOOLEAN }

\* the result of the Vertex analysis: the lengths of its lists
VertexAnalyses ==
  { [explicitContent |-> e, labels |-> l, faces |-> f] :
      e \in {0, 1}, l \in {10, 11}, f \in {0, 1} }

NoValue == [settled |-> FALSE]

\* a score that counts ten labels already
QualityScoreFromTenLabels(gemini, vertex) ==
  (IF vertex.explicitContent = 0 THEN 20 ELSE 0)
  + (IF vertex.labels >= 10 THEN 20 ELSE 0)
  + (IF vertex.faces > 0 THEN 20 ELSE 0)
  + (IF gemini.scenes >= 5 THEN 20 ELSE 0)
  + (IF gemini.transcription > 100 THEN 20 ELSE 0)

\* calculateQualityScore(gemini, vertex)
QualityScore(gemini, vertex) ==
  (IF vertex.explicitContent = 0 THEN 20 ELSE 0)
  + (IF vertex.labels > 10 THEN 20 ELSE 0)
  + (IF vertex.faces > 0 THEN 20 ELSE 0)
  + (IF gemini.scenes >= 5 THEN 20 ELSE 0)
  + (IF gemini.transcription > 100 THEN 20 ELSE 0)

\* { gemini, vertex, combined: mergeAnalyses(gemini, vertex) }, with the
\* fields of combined that are computed
Comprehensive(gemini, vertex) ==
  [gemini |-> gemini, vertex |-> vertex,
   combined |-> [scenes |-> gemini.scenes, labels |-> vertex.labels,
                 faces |-> vertex.faces,
                 qualityScore |-> QualityScore(gemini, vertex)]]

OrchIdle ==
  /\ opc = "idle"
  /\ geminiTask = "idle"
  /\ vertexTask = "idle"
  /\ geminiAnalysis = NoValue
  /\ vertexAnalysis = NoValue
  /\ comprehensive = NoValue

\* the call: both analyzeVideo calls are made while the array passed to
\* Promise.all is built, then the function awaits
OrchCall ==
  /\ opc = "idle"
  /\ geminiTask' = "running"
  /\ vertexTask' = "running"
  /\ opc' = "awaiting"
  /\ UNCHANGED <<geminiAnalysis, vertexAnalysis, comprehensive>>
  /\ UNCHANGED nonOrchVars

\* this.gemini.analyzeVideo settles
GeminiSettles ==
  /\ geminiTask = "running"
  /\ \/ /\ geminiTask' = "fulfilled"
        /\ geminiAnalysis' \in GeminiAnalyses
     \/ /\ geminiTask' = "rejected"
        /\ UNCHANGED geminiAnalysis
  /\ UNCHANGED <<opc, vertexTask, vertexAnalysis, comprehensive>>
  /\ UNCHANGED nonOrchVars

\* this.vertex.analyzeVideo settles
VertexSettles ==
  /\ vertexTask = "running"
  /\ \/ /\ vertexTask' = "fulfilled"
        /\ vertexAnalysis' \in VertexAnalyses
     \/ /\ vertexTask' = "rejected"
        /\ UNCHANGED vertexAnalysis
  /\ UNCHANGED <<opc, geminiTask, geminiAnalysis, comprehensive>>
  /\ UNCHANGED nonOrchVars

\* a call that goes on once both promises have settled, with what there is
AllSettledContinues ==
  /\ opc = "awaiting"
  /\ geminiTask \in {"fulfilled", "rejected"}
  /\ vertexTask \in {"fulfilled", "rejected"}
  /\ opc' = "returned"
  /\ comprehensive' = [gemini |-> geminiAnalysis, vertex |-> vertexAnalysis]
  /\ UNCHANGED <<geminiTask, vertexTask, geminiAnalysis, vertexAnalysis>>
  /\ UNCHANGED nonOrchVars

\* Promise.all fulfils once both promises have: the function goes on to
\* mergeAnalyses, in which calculateConversionScore throws on a timestamp
\* without a description
PromiseAllFulfils ==
  /\ opc = "awaiting"
  /\ geminiTask = "fulfilled" /\ vertexTask = "fulfilled"
  /\ IF geminiAnalysis.described
     THEN /\ opc' = "returned"
          /\ comprehensive' = Comprehensive(geminiAnalysis, vertexAnalysis)
     ELSE /\ opc' = "rejected"
          /\ UNCHANGED comprehensive
  /\ UNCHANGED <<geminiTask, vertexTask, geminiAnalysis, vertexAnalysis>>
  /\ UNCHANGED nonOrchVars

\* Promise.all rejects as soon as one of the two promises has rejected;
\* the await throws and the call rejects
PromiseAllRejects ==
  /\ opc = "awaiting"
  /\ geminiTask = "rejected" \/ vertexTask = "rejected"
  /\ opc' = "rejected"
  /\ UNCHANGED <<geminiTask, vertexTask, geminiAnalysis, vertexAnalysis,
                 comprehensive>>
  /\ UNCHANGED nonOrchVars

OrchNext ==
  \/ OrchCall
  \/ GeminiSettles
  \/ VertexSettles
  \/ PromiseAllFulfils
  \/ PromiseAllRejects

InitApp == AppInit /\ BatchIdle /\ ParseIdle /\ GenIdle /\ ScenesIdle /\ OrchIdle

SpecApp == InitApp /\ [][AppNext]_vars

\* the events of the browser and the responses of the vendor are not
\* withheld for ever; the user may stop acting
SpecAppFair == SpecApp /\ WF_vars(AppEvents)

InitGen == GenInit /\ BatchIdle /\ ParseIdle /\ AppInit /\ ScenesIdle /\ OrchIdle

SpecGen == InitGen /\ [][GenNext]_vars

\* every step of the function is eventually taken: timers fire and
\* requests settle
SpecGenFair == SpecGen /\ WF_vars(GenNext)

InitBatch == BatchInit /\ ParseIdle /\ GenIdle /\ AppInit /\ ScenesIdle /\ OrchIdle

SpecBatch == InitBatch /\ [][BatchNext]_vars

InitParse == ParseInit /\ BatchIdle /\ GenIdle /\ AppInit /\ ScenesIdle /\ OrchIdle

SpecParse == InitParse /\ [][ParseNext]_vars

InitScenes == ScenesInit /\ BatchIdle /\ ParseIdle /\ GenIdle /\ AppInit /\ OrchIdle

SpecScenes == InitScenes /\ [][CallSelectBestScenes]_vars

InitOrch == OrchIdle /\ BatchIdle /\ ParseIdle /\ GenIdle /\ AppInit /\ ScenesIdle

SpecOrch == InitOrch /\ [][OrchNext]_vars

(***************************************************************************)
(* Claims about batch processing.                                          *)
(***************************************************************************)
Settled(v) == task[v] \in {"returned", "rejected"}

\* 0-based number of the chunk file v belongs to
ChunkIndex(v) == (v - 1) \div maxConcurrent

\* C1: in every reachable state the number of analyses that were started
\* and have not settled is at most maxConcurrent.
C1_InFlightAtMostMaxConcurrent == Cardinality(InFlight) <= maxConcurrent

\* a later chunk of a batch with more files than maxConcurrent is in
\* flight and fills the cap
C1_Witness ==
  /\ bi > 0
  /\ videos > maxConcurrent
  /\ Cardinality(InFlight) = maxConcurrent

\* C2: a failed analysis does not reject the batch (the batch function
\* rejects only after an onProgress callback has thrown) and does not keep
\* other files from being analysed; the resolved batch holds one record
\* per input file, each either (analysis, error = null) or (analysis =
\* null, error = message of the failure).
C2_FailuresRecordedPerItem ==
  /\ (bpc = "rejected" \/ \E v \in 1..videos : task[v] = "rejected") => cbThrown
  /\ bpc = "resolved" =>
       /\ Len(results) = videos
       /\ \A v \in 1..videos :
            /\ task[v] = "returned"
            /\ \/ results[v].analysis # Null /\ results[v].error = Null
               \/ results[v].analysis = Null /\ results[v].error # Null
            /\ outcome[v] \in FailureCauses =>
                 /\ results[v].analysis = Null
                 /\ results[v].error = FailureMessage(outcome[v])
            /\ (outcome[v] = "ok" /\ ~cbThrown) =>
                 /\ results[v].analysis = AnalysisOf(v)
                 /\ results[v].error = Null

\* a batch of several chunks resolved although an analysis of the first
\* chunk failed, and a later file was analysed successfully
C2_Witness ==
  /\ bpc = "resolved"
  /\ videos > maxConcurrent
  /\ results[1].analysis = Null
  /\ results[1].error = "Failed to load video"
  /\ results[videos].analysis # Null

\* C3: no analysis of a later chunk is started before every analysis of
\* each earlier chunk has settled.
C3_ChunksSequential ==
  \A u, v \in 1..videos :
     (ChunkIndex(u) < ChunkIndex(v) /\ task[v] # "idle") => Settled(u)

\* an analysis of the second chunk is running after the first chunk
\* settled with both a success and a failure
C3_Witness ==
  /\ bi > 0
  /\ \E v \in InFlight : ChunkIndex(v) = 1
  /\ \E u, w \in 1..videos :
       /\ ChunkIndex(u) = 0 /\ ChunkIndex(w) = 0
       /\ outcome[u] = "ok" /\ outcome[w] \in FailureCauses

(***************************************************************************)
(* Claims about parsing.                                                   *)
(***************************************************************************)
\* the six fields, in the order of the object literal
HasExactlyTheFields(v) ==
  /\ v.t = "obj"
  /\ Len(v.e) = Len(Fields)
  /\ \A i \in 1..Len(Fields) : v.e[i].t = "member" /\ v.e[i].s = Fields[i]

RECURSIVE TextLen(_, _)
TextLen(toks, i) == IF i > Len(toks) THEN 0 ELSE TokenLen(toks[i]) + TextLen(toks, i + 1)

\* the text does not hold a complete JSON value where the functions look
Unparseable == psrc # NoSource /\ ~Intact(psrc.wrap)

Parsed == pfn \in {"parseAnalysisResponse", "parseJSON"}

\* C7 as stated: for a response text that cannot be parsed as JSON no
\* exception is raised and the result is the empty result: summary and
\* transcription empty strings, the four lists empty.
C7_FallbackIsEmptyResult ==
  (Parsed /\ Unparseable) =>
     /\ ~presult.threw
     /\ HasExactlyTheFields(presult.val)
     /\ \A key \in FieldSet : Get(presult.val, key) = DefaultOf(key)

\* C7 amended: for a response text that cannot be parsed as JSON no
\* exception is raised, summary is the first 500 characters of the
\* response text, transcription is the empty string and scenes,
\* timestamps, emotions and objects are empty lists.
C7_FallbackKeepsTextInSummary ==
  (Parsed /\ Unparseable) =>
     /\ ~presult.threw
     /\ HasExactlyTheFields(presult.val)
     /\ Get(presult.val, "summary") = Substring(ptext.toks, SummaryLimit)
     /\ LET len == TextLen(ptext.toks, 1)
            sum == Get(presult.val, "summary")
        IN IF len = 0 THEN sum = EmptyString
           ELSE sum.t = "text" /\ sum.n = Min(len, SummaryLimit)
     /\ \A key \in FieldSet \ {"summary"} : Get(presult.val, key) = DefaultOf(key)

\* parseAnalysisResponse fell back on a text longer than 500 characters
C7_Witness ==
  /\ pfn = "parseAnalysisResponse"
  /\ psrc.wrap = "long prose"
  /\ TextLen(ptext.toks, 1) > SummaryLimit
  /\ Get(presult.val, "summary").n = SummaryLimit

\* C8: for a response that parses to a JSON object the result of
\* parseAnalysisResponse has exactly the six fields; a field missing or
\* falsy in the parsed object has its default, any other field has the
\* value of the parsed object, whatever its type.
C8_DefaultFilling ==
  (pfn = "parseAnalysisResponse" /\ Intact(psrc.wrap) /\ psrc.val.t = "obj") =>
     /\ ~presult.threw
     /\ HasExactlyTheFields(presult.val)
     /\ \A key \in FieldSet :
          LET given == Get(psrc.val, key) IN
          Get(presult.val, key) =
            IF given.t = "undefined" \/ Falsy(given) THEN DefaultOf(key) ELSE given

\* a fenced object with a missing field, a falsy field and fields of the
\* wrong type went through parseAnalysisResponse
C8_Witness ==
  /\ pfn = "parseAnalysisResponse"
  /\ psrc.wrap = "fence"
  /\ psrc.val.t = "obj"
  /\ Get(psrc.val, "summary").t = "undefined"
  /\ Get(psrc.val, "timestamps") = JNum(0)
  /\ Get(presult.val, "timestamps") = EmptyList
  /\ Get(presult.val, "scenes") = JStr("text")
  /\ Get(presult.val, "transcription") = JArr(<<JNum(7)>>)

(***************************************************************************)
(* Claims about video generation.                                          *)
(***************************************************************************)
GenEnded == gpc \in {"returned", "thrown"}

\* C9: generateVideo asks for the state of the operation only after one
\* wait of PollIntervalMs since the last state it received, and the fetch
\* of the video (and the return) happens only when the last state received
\* was done (and carried a video); no fetch is made while it is not done.
C9_DownloadOnlyAfterDone ==
  gfn = "generateVideo" =>
     /\ gpc = "poll" => sinceCheck = PollIntervalMs
     /\ gpc \in {"check", "wait"} => sinceCheck = 0
     /\ ~gop.done => (downloads = 0 /\ gpc \notin {"download", "returned"})
     /\ gpc \in {"download", "returned"} => (gop.done /\ gop.uri /\ downloads = 1)

\* generateVideo returned the object URL after several status checks
C9_Witness ==
  /\ gfn = "generateVideo"
  /\ gpc = "returned"
  /\ pollCount >= 2
  /\ downloads = 1

C10_Safety ==
  WithProgress =>
     /\ pollCount + (IF gpc = "poll" THEN 1 ELSE 0) <= maxPolls
     /\ gerror = "Video generation timed out" =>
          (gpc = "thrown" /\ pollCount = maxPolls /\ ~gop.done /\ downloads = 0)
     /\ (pollCount = maxPolls /\ ~gop.done) =>
          /\ downloads = 0
          /\ gpc \in {"check", "after", "thrown"}
          /\ gpc = "thrown" => gerror = "Video generation timed out"

\* C10: generateVideoWithProgress receives at most maxPolls = 60 operation
\* states from polling; when none of them is done it throws 'Video
\* generation timed out' without fetching anything; and every run of it
\* ends, also when the operation never reports done.
C10_PollingBoundedAndTerminates ==
  /\ []C10_Safety
  /\ WithProgress => <>GenEnded

\* generateVideoWithProgress timed out after maxPolls polls
C10_Witness ==
  /\ WithProgress
  /\ gpc = "thrown"
  /\ gerror = "Video generation timed out"
  /\ pollCount = maxPolls

(***************************************************************************)
(* Claims about the App component.                                         *)
(***************************************************************************)
InFlightAnalysis == hpc # "idle"

\* C4: whenever analyzeVideo rejects, the error does not leave
\* handleAnalyze; in the state that follows, error is a non-empty message
\* (the message of the rejection, or 'Analysis failed' when it has none)
\* and loading is false.
C4_RejectionBecomesMessage ==
  [][(InFlightAnalysis /\ lastEvent' = "rejected") =>
       /\ ~escaped'
       /\ hpc' = "idle"
       /\ error' = (IF rejection'.message \in {Undefined, ""}
                    THEN "Analysis failed" ELSE rejection'.message)
       /\ error' \notin {Null, Undefined, ""}
       /\ loading' = FALSE]_vars

\* analyzeVideo rejected with the event of the file reader, which has no
\* message
C4_Witness ==
  /\ lastEvent = "rejected"
  /\ rejection = ReaderErrorEvent
  /\ error = "Analysis failed"
  /\ loading = FALSE

\* C5: after an accepted click loading is true and error is cleared before
\* any request is sent; loading stays true while the analysis is in
\* flight; every started analysis leads to a state with loading = false.
C5_LoadingToggles ==
  /\ [](lastEvent = "click" => (loading /\ error = Null /\ sent = <<>>))
  /\ [](InFlightAnalysis => loading)
  /\ [](InFlightAnalysis => <>(~loading))

\* C6: handleAnalyze called with an empty API key or without a video file
\* sets error to the validation message and leaves loading, the stored
\* analysis and the vendor requests as they were: nothing is started.
C6_ValidationOnly ==
  [][(lastEvent' \in {"click", "invalid"} /\ (apiKey = "" \/ videoFile = Null)) =>
       /\ error' = ValidationMessage
       /\ loading' = loading
       /\ analysis' = analysis
       /\ sent' = sent
       /\ hpc' = hpc
       /\ objectUrls' = objectUrls]_vars

\* handleAnalyze refused to start without a file, after an analysis had
\* been stored
C6_Witness ==
  /\ lastEvent = "invalid"
  /\ videoFile = Null
  /\ error = ValidationMessage
  /\ loading = FALSE
  /\ analysis # NoAnalysis

(***************************************************************************)
(* Claims about extractVideoFrames, as analyzeVideo calls it for the App.  *)
(***************************************************************************)
\* the promise of extractVideoFrames resolved in the latest call
ExtractionResolved == reqFile # Null /\ vst = "none"

\* C11: for a video of positive duration and numFrames = N (30 in the
\* App), the promise resolves with exactly N frames, captured at the
\* regularly spaced times k * duration / N.
C11_ExactlyNumFrames ==
  ExtractionResolved =>
    /\ Len(frames) = ExtractFrames
    /\ \A i \in 1..Len(frames) :
         frames[i] = (i - 1) * Interval(Duration(reqFile), ExtractFrames)

\* C16: whenever the video element reports an error after the source is
\* assigned, the promise rejects with 'Failed to load video': analyzeVideo
\* rejects and the App shows the error and stops loading.
C16_ErrorRejects ==
  [][(vst # "failed" /\ vst' = "failed") =>
       /\ rejection' = LoadError
       /\ hpc' = "idle"
       /\ error' = "Failed to load video"
       /\ loading' = FALSE]_vars

\* C17: for every video whose metadata loads, if every seek is followed by
\* a seeked event, the promise resolves after finitely many seeks, and the
\* object URL is revoked exactly once, when the promise resolves.
C17_ExtractionTerminates ==
  /\ []((vst = "seeking" /\ ~MayFailDecoding(reqFile)) =>
          <>(ExtractionResolved /\ objectUrls = 0))
  /\ [](Len(frames) <= ExtractFrames + 1)
  /\ [][(objectUrls' # objectUrls /\ lastEvent' # "click") =>
          /\ vst = "seeking" /\ vst' = "none"
          /\ objectUrls = 1 /\ objectUrls' = 0]_vars

(***************************************************************************)
(* Claims about selectBestScenes.                                          *)
(***************************************************************************)
RECURSIVE SumDurations(_)
SumDurations(list) ==
  IF list = <<>> THEN 0
  ELSE (list[1].endTime - list[1].startTime) + SumDurations(Tail(list))

SelectedIndices == { selectedScenes[i].index : i \in 1..Len(selectedScenes) }

C13_FiltersByAnalysisIndex ==
  rpc = "returned" =>
    /\ includeScenes.given => SelectedIndices \subseteq includeScenes.indices
    /\ excludeScenes.given => SelectedIndices \cap excludeScenes.indices = {}

(***************************************************************************)
(* Claims about parseRecommendations.                                      *)
(***************************************************************************)
\* C14: for every response text parseRecommendations returns a list: the
\* parsed JSON array, or the empty list when parsing fails.
C14_RecommendationsIsList ==
  pfn = "parseRecommendations" =>
    /\ ~presult.threw
    /\ presult.val.t = "arr"
    /\ Unparseable => presult.val = EmptyList

(***************************************************************************)
(* Claims about the requests of analyzeVideo.                              *)
(***************************************************************************)
\* C15: analyzeVideo sends its requests in a fixed order and without
\* retry: the frames are extracted and the file is encoded before the
\* analysis request; the recommendation request is sent only after the
\* analysis response was received and parsed; each is sent at most once per
\* call; when the analysis request fails, no recommendation request is
\* sent.
C15_RequestsInOrderOnce ==
  /\ [](sent \in {<<>>, <<"gemini-2.5-pro">>,
                  <<"gemini-2.5-pro", "gemini-2.5-flash">>})
  /\ [](hpc \in {"frames", "base64"} => sent = <<>>)
  /\ [](sent # <<>> => (ExtractionResolved /\ frames # <<>>))
  /\ [](Len(sent) = 2 => parsed # JUndefined)
  /\ [][Len(sent') > Len(sent) =>
          IF sent = <<>>
          THEN hpc = "base64" /\ sent' = <<"gemini-2.5-pro">>
          ELSE /\ hpc = "analysis" /\ parsed = JUndefined /\ parsed' # JUndefined
               /\ sent' = <<"gemini-2.5-pro", "gemini-2.5-flash">>]_vars
  /\ [][(hpc = "analysis" /\ lastEvent' = "rejected") =>
          (sent' = <<"gemini-2.5-pro">> /\ hpc' = "idle")]_vars

\* a call that sent both requests, and resolved
C15_Witness ==
  /\ lastEvent = "resolved"
  /\ sent = <<"gemini-2.5-pro", "gemini-2.5-flash">>
  /\ parsed # JUndefined

(***************************************************************************)
(* Claims about generateVideo.                                             *)
(***************************************************************************)
RequestFailed == gerror = "API error"

C18_Safety ==
  gfn = "generateVideo" =>
     /\ gpc \in {"after", "download", "returned"} => gop.done
     /\ gpc = "thrown" => (gop.done \/ RequestFailed)
     /\ RequestFailed => gpc = "thrown"

\* C18: generateVideo has no timeout: whatever the number of polls made, a
\* status check that does not report done is followed by another wait and
\* poll; it leaves the loop, and so returns or throws, only when a status
\* check reported done or a request failed; and once a check reported done
\* it ends.
C18_NoTimeout ==
  /\ []C18_Safety
  /\ [][(gfn = "generateVideo" /\ gpc = "check" /\ ~gop.done) =>
          gpc' = "wait"]_vars
  /\ [][(gfn = "generateVideo" /\ gpc = "wait") => gpc' = "poll"]_vars
  /\ gfn = "generateVideo" => [](gop.done => <>GenEnded)

\* generateVideo is still waiting in the loop after GenPollBound polls
C18_Witness ==
  /\ gfn = "generateVideo"
  /\ pollCount = GenPollBound
  /\ gpc = "wait"
  /\ ~gop.done

FetchingMessage == "Fetching generated video..."

\* C19: when the operation is done without a video URI, generateVideo
\* throws 'Video generation failed', makes no download request and never
\* reports 'Fetching generated video...'.
C19_NoUriThrows ==
  (gfn = "generateVideo" /\ gop.done /\ ~gop.uri) =>
     /\ gpc \in {"check", "after", "thrown"}
     /\ gpc = "thrown" => gerror = "Video generation failed"
     /\ downloads = 0
     /\ \A i \in 1..Len(gprogress) : gprogress[i].msg # FetchingMessage

\* generateVideo threw because the finished operation had no video
C19_Witness ==
  /\ gfn = "generateVideo"
  /\ gop.done /\ ~gop.uri
  /\ gpc = "thrown"
  /\ gerror = "Video generation failed"
  /\ pollCount >= 1

(***************************************************************************)
(* Claims about the Analyze button.                                        *)
(***************************************************************************)
\* C20: the Analyze button is enabled exactly when loading is false, the
\* API key is non-empty and a file is selected; so a click starts an
\* analysis only when none is in flight, and at most one is in flight.
C20_ButtonGatesAnalysis ==
  /\ []((ENABLED ClickAnalyze) <=>
          (~loading /\ apiKey # "" /\ videoFile # Null))
  /\ [](InFlightAnalysis => (loading /\ ~ENABLED ClickAnalyze))
  /\ [][lastEvent' = "click" =>
          /\ ~loading /\ apiKey # "" /\ videoFile # Null
          /\ ~InFlightAnalysis /\ InFlightAnalysis']_vars

\* an analysis is in flight with key and file still set: only loading
\* keeps the button disabled
C20_Witness ==
  /\ InFlightAnalysis
  /\ sent # <<>>
  /\ loading
  /\ apiKey # "" /\ videoFile # Null
  /\ analysis # NoAnalysis

(***************************************************************************)
(* Claims about the stored analysis and the inputs of a running call.      *)
(***************************************************************************)
\* C21: handleAnalyze leaves the stored analysis as it is when the
\* analysis fails or the validation refuses to start: analysis changes
\* only when analyzeVideo resolved, so an earlier result stays stored.
C21_AnalysisChangesOnlyOnSuccess ==
  [][/\ analysis' # analysis =>
          (hpc = "recommendations" /\ lastEvent' = "resolved")
     /\ lastEvent' \in {"rejected", "invalid", "click"} =>
          analysis' = analysis]_vars

\* a second analysis failed: the result of the first one is still stored,
\* next to the error message
C21_Witness ==
  /\ lastEvent = "rejected"
  /\ analysis # NoAnalysis
  /\ error \notin {Null, ""}
  /\ loading = FALSE

\* C22: a running analysis keeps the key, file and flag it was started
\* with: changing apiKey, videoFile or ptdOptimized while loading neither
\* alters nor ends the call nor starts another one, and the analysis stored
\* when it resolves is the one of the file and flag of the click.
C22_InFlightUsesClickTimeInputs ==
  /\ [](lastEvent = "click" =>
          (reqKey = apiKey /\ reqFile = videoFile /\ reqPtd = ptdOptimized))
  /\ [][InFlightAnalysis =>
          (reqKey' = reqKey /\ reqFile' = reqFile /\ reqPtd' = reqPtd)]_vars
  /\ [][(InFlightAnalysis /\ lastEvent' \in {"key", "file", "ptd"}) =>
          (hpc' = hpc /\ sent' = sent /\ vst' = vst /\ frames' = frames
           /\ loading' = loading /\ analysis' = analysis)]_vars
  /\ [][lastEvent' = "resolved" =>
          (analysis'.file = reqFile /\ analysis'.ptd = reqPtd)]_vars

\* the analysis of one file was stored while another file, the other flag
\* and no key were selected
C22_Witness ==
  /\ lastEvent = "resolved"
  /\ analysis.file # videoFile
  /\ videoFile # Null
  /\ analysis.ptd # ptdOptimized
  /\ apiKey # reqKey

(***************************************************************************)
(* Claims about the order and the progress of a batch.                     *)
(***************************************************************************)
\* C23: whatever the order in which the analyses finish, the i-th record
\* of the batch result carries the name of the i-th input video.
C23_ResultsInInputOrder ==
  /\ \A i \in 1..Len(results) : results[i].video = VideoName(i)
  /\ bpc = "resolved" => Len(results) = videos

\* the records of the first chunk are stored, and in the second chunk a
\* later file has finished while an earlier one is still being analysed
C23_Witness ==
  /\ bpc = "await"
  /\ Len(results) >= 2
  /\ \E u, v \in ChunkOf(bi, maxConcurrent, videos) :
       u < v /\ task[u] = "running" /\ task[v] = "returned"

\* C24: with an onProgress callback that returns normally, it is called
\* exactly once for every input video that has finished, successfully or
\* not; the k-th call is (k, total), so completed increases by one, never
\* exceeds total, and the last call of a finished batch is (total, total).
C24_ProgressOncePerVideo ==
  (hasProgress /\ ~cbThrown) =>
     /\ \A k \in 1..Len(progressCalls) : progressCalls[k] = <<k, videos>>
     /\ Len(progressCalls) <= videos
     /\ \A v \in 1..videos : callsFor[v] = (IF Settled(v) THEN 1 ELSE 0)
     /\ bpc = "resolved" =>
          /\ Len(progressCalls) = videos
          /\ \A v \in 1..videos : callsFor[v] = 1

\* a batch of several chunks finished with a failed and a successful
\* analysis, and the last call was (total, total)
C24_Witness ==
  /\ hasProgress /\ ~cbThrown
  /\ bpc = "resolved"
  /\ videos > maxConcurrent
  /\ progressCalls[videos] = <<videos, videos>>
  /\ \E u, v \in 1..videos : outcome[u] = "ok" /\ outcome[v] \in FailureCauses

(***************************************************************************)
(* Claims about analyzeComprehensive and the quality score.                *)
(***************************************************************************)
\* C25: analyzeComprehensive starts the Gemini and the Vertex analysis
\* together, neither waiting for the other; it returns a merged result
\* only after both have succeeded; if either fails the call fails and no
\* merged result is produced.
C25_BothOrNothing ==
  /\ geminiTask = "idle" <=> vertexTask = "idle"
  /\ opc = "awaiting" => (geminiTask # "idle" /\ vertexTask # "idle")
  /\ opc = "returned" =>
       /\ geminiTask = "fulfilled" /\ vertexTask = "fulfilled"
       /\ comprehensive = Comprehensive(geminiAnalysis, vertexAnalysis)
  /\ opc # "returned" => comprehensive = NoValue
  /\ (geminiTask = "rejected" \/ vertexTask = "rejected") =>
       /\ opc \in {"awaiting", "rejected"}
       /\ opc = "awaiting" =>
            (ENABLED PromiseAllRejects /\ ~ENABLED PromiseAllFulfils)

\* the call failed because the Vertex analysis did, while the Gemini
\* analysis was still running
C25_Witness ==
  /\ opc = "rejected"
  /\ vertexTask = "rejected"
  /\ geminiTask = "running"
  /\ comprehensive = NoValue

\* the indicators of the quality score
Indicators(gemini, vertex) ==
  { i \in 1..5 :
      \/ i = 1 /\ vertex.explicitContent = 0
      \/ i = 2 /\ vertex.labels > 10
      \/ i = 3 /\ vertex.faces >= 1
      \/ i = 4 /\ gemini.scenes >= 5
      \/ i = 5 /\ gemini.transcription > 100 }

\* C28: the quality score is 20 times the number of indicators that hold
\* among: no explicit-content frame, more than 10 labels, at least one
\* face, at least 5 scenes, a transcription of more than 100 characters;
\* so it is one of 0, 20, 40, 60, 80, 100.
C28_QualityScore ==
  opc = "returned" =>
     /\ comprehensive.combined.qualityScore =
          20 * Cardinality(Indicators(geminiAnalysis, vertexAnalysis))
     /\ comprehensive.combined.qualityScore \in {0, 20, 40, 60, 80, 100}

\* a result with exactly ten labels and a hundred characters, which count
\* for nothing: the three other indicators give 60
C28_Witness ==
  /\ opc = "returned"
  /\ vertexAnalysis.labels = 10
  /\ geminiAnalysis.transcription = 100
  /\ comprehensive.combined.qualityScore = 60

(***************************************************************************)
(* Claims about the order in which selectBestScenes takes the scenes.      *)
(***************************************************************************)
Candidates == FilterScenes(scenes, includeScenes, excludeScenes)

\* the final score as the claim gives it
ClaimedScore(x) ==
  x.score
  + (IF optimizeFor = "engagement" /\ x.dominantEmotion = "excited" THEN 20 ELSE 0)
  + (IF optimizeFor = "conversion" /\ Len(x.objects) > 3 THEN 10 ELSE 0)

\* x is considered before y: by final score, scenes of equal score in the
\* order of the list
ConsideredBefore(x, y) ==
  \/ ClaimedScore(x) > ClaimedScore(y)
  \/ ClaimedScore(x) = ClaimedScore(y) /\ x.index < y.index

IsSelected(x) == x.index \in SelectedIndices

\* the running total when x is considered, and after it
TotalBefore(x) ==
  SumDurations(SelectSeq(Candidates,
                         LAMBDA s : IsSelected(s) /\ ConsideredBefore(s, x)))
TotalAfter(x) ==
  TotalBefore(x) + (IF IsSelected(x) THEN x.endTime - x.startTime ELSE 0)

\* no scene considered before x took the total to 90% of the target
IsConsidered(x) ==
  \A j \in 1..Len(Candidates) :
     ConsideredBefore(Candidates[j], x) =>
        10 * TotalAfter(Candidates[j]) < 9 * targetDuration

\* C26: the scenes are considered in non-increasing order of final score
\* (score, plus 20 for an excited scene when optimising for engagement,
\* plus 10 for a scene with more than 3 objects when optimising for
\* conversion); a considered scene is selected exactly when its duration
\* keeps the running total at or below targetDuration; no scene is
\* considered once the total has reached 90% of targetDuration.
C26_GreedyByFinalScore ==
  rpc = "returned" =>
     /\ \A i \in 1..Len(selectedScenes) :
          /\ selectedScenes[i].finalScore = ClaimedScore(selectedScenes[i])
          /\ \E j \in 1..Len(Candidates) :
               Candidates[j].index = selectedScenes[i].index
     /\ \A i, j \in 1..Len(selectedScenes) :
          i < j => ConsideredBefore(selectedScenes[i], selectedScenes[j])
     /\ \A j \in 1..Len(Candidates) :
          LET x == Candidates[j] IN
          IsSelected(x) <=>
             /\ IsConsidered(x)
             /\ TotalBefore(x) + (x.endTime - x.startTime) <= targetDuration

\* optimising for conversion moved the scene with four objects to the
\* front; with the next scene the total reached 28 of 30 seconds, and the
\* last scene, which would have fitted, was not considered
C26_Witness ==
  /\ rpc = "returned"
  /\ optimizeFor = "conversion"
  /\ targetDuration = DefaultTargetDuration
  /\ Len(scenes) = 3 /\ Len(selectedScenes) = 2
  /\ includeScenes = NotGiven /\ excludeScenes = NotGiven
  /\ selectedScenes[1].index = 2
  /\ SumDurations(selectedScenes) < targetDuration
  /\ \E j \in 1..3 :
       /\ ~IsSelected(scenes[j])
       /\ SumDurations(selectedScenes) + (scenes[j].endTime - scenes[j].startTime)
            <= targetDuration

(***************************************************************************)
(* Claims about the text the parsing functions hand to JSON.parse.         *)
(***************************************************************************)
\* the text the claim has parsed: the content of the first block between
\* a ```json line and a closing ``` line, or the whole text without one
ChosenText ==
  CASE psrc.wrap \in {"fence", "prose fence", "two fences"} -> Stringify(psrc.val)
    [] psrc.wrap = "cut fence" ->
         LET b == Stringify(psrc.val) IN SubSeq(b, 1, Len(b) - 1)
    [] psrc.wrap = "second fence" -> <<"PROSE">>
    [] OTHER -> ptext.toks

\* C27: parseAnalysisResponse and parseRecommendations parse the content of
\* the first block fenced by ```json when the response has one, ignoring
\* the text around it, and the whole response text otherwise; when the
\* chosen text is not valid JSON the fallback result is returned (the
\* first 500 characters of the response as summary, or the empty list) and
\* no other part of the response is tried.
C27_FirstFencedBlockOrWholeText ==
  (psrc # NoSource /\ pfn \in {"parseAnalysisResponse", "parseRecommendations"}) =>
     LET r == JSONParse(ChosenText) IN
     /\ ~presult.threw
     /\ (pfn = "parseRecommendations" /\ r.ok) => presult.val = r.val
     /\ (pfn = "parseRecommendations" /\ ~r.ok) => presult.val = EmptyList
     /\ (pfn = "parseAnalysisResponse" /\ r.ok /\ r.val.t # "null") =>
           presult = ParseAnalysisResponse(Text(ChosenText))
     /\ (pfn = "parseAnalysisResponse" /\ ~r.ok) =>
           presult.val = ResultObject(Fallback(ptext.toks))
     /\ (r.ok /\ psrc.wrap \in {"fence", "prose fence", "two fences"}) =>
           r.val = psrc.val

\* the first of two fenced blocks was parsed, the rest of the text ignored
C27_Witness ==
  /\ pfn = "parseAnalysisResponse"
  /\ psrc.wrap = "two fences"
  /\ psrc.val = JObj(<<Member("summary", JStr("text"))>>)
  /\ ~presult.threw
  /\ Get(presult.val, "summary") = JStr("text")

(***************************************************************************)
(* Claims about the percentages generateVideoWithProgress reports.         *)
(***************************************************************************)
\* a percentage, as the numerator over maxPolls the model keeps
Percent(n) == n * maxPolls

\* C29: the percentages generateVideoWithProgress passes to onProgress
\* never decrease and start at 0; up to the end of polling every reported
\* percentage is at most 90; 95 is reported only when the operation is
\* done; 100 is reported only by a run that downloaded the video and
\* returned, never by a run that ended in an error.
C29_ProgressPercentages ==
  WithProgress =>
     /\ gprogress # <<>> => gprogress[1].pct = Percent(0)
     /\ \A i, j \in 1..Len(gprogress) :
          i < j => gprogress[i].pct <= gprogress[j].pct
     /\ gpc \in {"request", "check", "wait", "poll"} =>
          \A i \in 1..Len(gprogress) : gprogress[i].pct <= Percent(90)
     /\ \A i \in 1..Len(gprogress) :
          /\ gprogress[i].pct >= 0
          /\ gprogress[i].msg = "Processing video... (%)" =>
               gprogress[i].pct <= Percent(90)
          /\ gprogress[i].pct = Percent(95) => gop.done
          /\ gprogress[i].pct = Percent(100) =>
               gpc = "returned" /\ downloads = 1 /\ i = Len(gprogress)
     /\ gpc = "thrown" =>
          \A i \in 1..Len(gprogress) : gprogress[i].pct < Percent(100)

\* a run polled long enough for the cap: it reported 0, percentages below
\* 90, 90 more than once, then 95 and 100
C29_Witness ==
  /\ WithProgress
  /\ gpc = "returned"
  /\ pollCount > 55
  /\ gprogress[1].pct = Percent(0)
  /\ \E i \in 1..Len(gprogress) :
       gprogress[i].pct > 0 /\ gprogress[i].pct < Percent(90)
  /\ \E i \in 1..Len(gprogress) :
       gprogress[i].pct = Percent(90) /\ gprogress[i + 1].pct = Percent(90)
  /\ gprogress[Len(gprogress) - 1].pct = Percent(95)
  /\ gprogress[Len(gprogress)].pct = Percent(100)

====
